---- MODULE Spec2Model ----
(***************************************************************************)
(* Model of the CoinGecko API client of CryptoCLI (src/app/api.py):        *)
(* class CoinGeckoAPI, its fixed-interval throttle, the usage counters and *)
(* their persistence in ~/.coingecko_usage.json.                           *)
(*                                                                         *)
(* Time is counted in ticks of half a second, so rate_limit_wait = 1.5 s   *)
(* is 3 ticks.  The clock only advances where the code blocks: between two *)
(* calls of the CLI, inside time.sleep and while a GET is in flight.       *)
(***************************************************************************)
EXTENDS Integers, Sequences, FiniteSets, TLC

(***************************************************************************)
(* Bounds of the model.                                                    *)
(***************************************************************************)
MaxCalls == 3
MaxRuns == 2
MaxTime == 9
MaxOversleep == 1
MaxLatency == 3
MaxX == 4
MaxY == 4

(***************************************************************************)
(* Python values held in memory and JSON values held in the usage file.    *)
(* The two are kept distinct so that json.dump / json.load are real        *)
(* conversions.                                                            *)
(***************************************************************************)
PyNone == [py |-> "None"]
PyInt(n) == [py |-> "int", n |-> n]
PyStr(s) == [py |-> "str", s |-> s]
PyDict(f) == [py |-> "dict", items |-> f]
PyList(q) == [py |-> "list", elems |-> q]

JNull == [js |-> "null"]
JNum(n) == [js |-> "number", n |-> n]
JStr(s) == [js |-> "string", s |-> s]
JObj(f) == [js |-> "object", members |-> f]
JArr(q) == [js |-> "array", elems |-> q]

EmptyMap == [k \in {} |-> PyNone]

RECURSIVE JsonDump(_)
JsonDump(v) ==
    CASE v.py = "None" -> JNull
      [] v.py = "int" -> JNum(v.n)
      [] v.py = "str" -> JStr(v.s)
      [] v.py = "dict" -> JObj([k \in DOMAIN v.items |-> JsonDump(v.items[k])])
      [] v.py = "list" -> JArr([i \in DOMAIN v.elems |-> JsonDump(v.elems[i])])

RECURSIVE JsonLoad(_)
JsonLoad(j) ==
    CASE j.js = "null" -> PyNone
      [] j.js = "number" -> PyInt(j.n)
      [] j.js = "string" -> PyStr(j.s)
      [] j.js = "object" -> PyDict([k \in DOMAIN j.members |-> JsonLoad(j.members[k])])
      [] j.js = "array" -> PyList([i \in DOMAIN j.elems |-> JsonLoad(j.elems[i])])

\* Python truth value of an object ("if not x", "if x").
Truthy(v) ==
    CASE v.py = "None" -> FALSE
      [] v.py = "int" -> v.n # 0
      [] v.py = "str" -> v.s # ""
      [] v.py = "dict" -> DOMAIN v.items # {}
      [] v.py = "list" -> Len(v.elems) # 0

(***************************************************************************)
(* Inputs: environment variables, endpoints, calendar, responses, files.   *)
(***************************************************************************)
\* os.getenv gives None for an unset variable, "" for an empty one.
EnvValues == {PyNone, PyStr(""), PyStr("set")}

Endpoints == {"simple/price", "coins/markets"}

\* datetime.now().strftime("%Y-%m-%d") on two consecutive days.
Calendar == <<"2024-01-31", "2024-02-01">>

Days == {Calendar[i] : i \in DOMAIN Calendar}

\* datetime.now().strftime("%Y-%m") of the same instant.
MonthOf(day) == IF day = "2024-02-01" THEN "2024-02" ELSE "2024-01"

NextDay(day) == Calendar[(CHOOSE i \in DOMAIN Calendar : Calendar[i] = day) + 1]

\* Response headers: none of the known rate-limit headers, two of them with
\* numeric values, one of them with a value that is no number.
NoRateHeaders == ("content-type" :> "application/json")

FullRateHeaders ==
    ("content-type" :> "application/json" @@ "x-ratelimit-limit" :> "30"
       @@ "x-ratelimit-remaining" :> "29")

PartRateHeaders == ("x-ratelimit-remaining" :> "soon")

\* Response bodies: a JSON document and a text that is not JSON.
JsonBody == "{\"bitcoin\": {\"usd\": 57234}}"

HtmlBody == "<html>"

\* The body of search/trending: trending coins (wrapped in "item") and NFTs.
TrendingBody ==
    "{\"coins\": [{\"item\": {\"name\": \"Bitcoin\", \"symbol\": \"btc\"}}], \"nfts\": [{\"name\": \"Pudgy\", \"symbol\": \"PPG\"}]}"

\* batch_size of get_newly_listed_coins and the page limit of coins/markets.
BatchSize == 50

MarketsPageLimit == 250

\* The body of coins/list/new with n coins, numbered 1..n; the text stands
\* for the JSON array that JsonParse gives for it.  Coin 2 carries an old
\* date without a zone, coin 3 a date with a zone, the others no date.
NewCoinsBody(n) == "[new coins 1.." \o ToString(n) \o "]"

ListSizes == {0, 1, 3, BatchSize + 1}

OldDate == "2023-01-01T00:00:00"

ZonedDate == "2024-01-30T10:00:00.000Z"

NewCoin(i) ==
    JObj( IF i = 2
          THEN "id" :> JStr(ToString(i)) @@ "date_added" :> JStr(OldDate)
          ELSE IF i = 3
          THEN "id" :> JStr(ToString(i)) @@ "date_added" :> JStr(ZonedDate)
          ELSE "id" :> JStr(ToString(i)) )

\* Bodies of coins/markets: every coin 1..BatchSize + 1 with its market
\* data, coin 1 alone, coin 1 alone with a 24h change of null, no coin, and
\* an error object.
Market(i, change) ==
    JObj( "id" :> JStr(ToString(i))
          @@ "current_price" :> JNum(5)
          @@ "market_cap_rank" :> JNum(i)
          @@ "price_change_percentage_24h" :> change
          @@ "price_change_percentage_24h_in_currency" :> change )

MarketsAllBody == "[markets of coins 1.." \o ToString(BatchSize + 1) \o "]"

MarketsOneBody ==
    "[{\"id\": \"1\", \"current_price\": 5, \"market_cap_rank\": 1, \"price_change_percentage_24h\": 2, \"price_change_percentage_24h_in_currency\": 2}]"

MarketsNullBody ==
    "[{\"id\": \"1\", \"current_price\": 5, \"market_cap_rank\": 1, \"price_change_percentage_24h\": null, \"price_change_percentage_24h_in_currency\": null}]"

EmptyListBody == "[]"

ErrorBody == "{\"error\": \"coin not found\"}"

\* Bodies of derivatives/exchanges and of an exchange's tickers.
ExchangesBody ==
    "[{\"id\": \"bitmex\", \"name\": \"BitMEX\"}, {\"name\": \"Unlisted\"}, {\"id\": \"bybit\"}]"

ExchangesOneBody == "[{\"id\": \"bitmex\", \"name\": \"BitMEX\"}]"

TickersBody ==
    "{\"tickers\": [{\"symbol\": \"BTCUSD\", \"converted_volume\": {\"btc\": 1}}, {\"symbol\": \"ETHUSD\", \"converted_volume\": {\"btc\": 2}}]}"

NoTickersBody == "{\"tickers\": []}"

NoResponse == [kind |-> "none"]

\* The endpoint of the tickers of one derivatives exchange.
TickersEndpoint(exchange_id) ==
    "derivatives/exchanges/" \o exchange_id \o "/tickers"

QueryEndpoints ==
    { "coins/list/new", "coins/markets", "derivatives/exchanges",
      TickersEndpoint("bitmex"), TickersEndpoint("bybit") }

\* session.get either raises a RequestException (connection error, timeout,
\* invalid URL) or hands back a response object.
TransportError == [kind |-> "raised"]

Http(status_code, headers, text) ==
    [kind |-> "http", status_code |-> status_code, headers |-> headers,
     text |-> text]

HttpResponses ==
    { Http(200, NoRateHeaders, JsonBody),
      Http(200, FullRateHeaders, JsonBody),
      Http(200, PartRateHeaders, JsonBody),
      Http(200, NoRateHeaders, HtmlBody),
      Http(200, NoRateHeaders, TrendingBody),
      Http(300, NoRateHeaders, JsonBody),
      Http(429, PartRateHeaders, HtmlBody),
      Http(429, FullRateHeaders, JsonBody),
      Http(500, NoRateHeaders, HtmlBody) }

\* What the server may answer on the endpoints that give lists.
ResponsesFor(e) ==
    {TransportError} \cup
    CASE e = "coins/list/new" ->
             {Http(200, NoRateHeaders, NewCoinsBody(n)) : n \in ListSizes}
      [] e = "coins/markets" ->
             { Http(200, NoRateHeaders, MarketsAllBody),
               Http(200, NoRateHeaders, MarketsOneBody),
               Http(200, NoRateHeaders, MarketsNullBody),
               Http(200, NoRateHeaders, EmptyListBody),
               Http(404, NoRateHeaders, ErrorBody) }
      [] e = "derivatives/exchanges" ->
             { Http(200, NoRateHeaders, ExchangesBody),
               Http(200, NoRateHeaders, ExchangesOneBody),
               Http(200, NoRateHeaders, EmptyListBody) }
      [] OTHER ->
             { Http(200, NoRateHeaders, TickersBody),
               Http(200, NoRateHeaders, NoTickersBody),
               Http(404, NoRateHeaders, ErrorBody) }

\* int(s) of a header value: the number, or ValueError.
IsIntLiteral(s) == s \in {"29", "30"}

IntOf(s) == IF s = "29" THEN 29 ELSE 30

\* The JSON document a text parses to; NotJson when the parser rejects it.
NotJson == [js |-> "invalid"]

JsonParse(text) ==
    CASE text = JsonBody -> JObj(("bitcoin" :> JObj(("usd" :> JNum(57234)))))
      [] text = TrendingBody ->
             JObj(( "coins" :>
                      JArr(<<JObj(("item" :>
                                     JObj(( "name" :> JStr("Bitcoin")
                                            @@ "symbol" :> JStr("btc") ))))>>)
                    @@ "nfts" :>
                      JArr(<<JObj(( "name" :> JStr("Pudgy")
                                    @@ "symbol" :> JStr("PPG") ))>>) ))
      [] text \in {NewCoinsBody(n) : n \in ListSizes} ->
             LET n == CHOOSE n \in ListSizes : text = NewCoinsBody(n)
             IN  JArr([i \in 1..n |-> NewCoin(i)])
      [] text = MarketsAllBody ->
             JArr([i \in 1..(BatchSize + 1) |-> Market(i, JNum(2))])
      [] text = MarketsOneBody -> JArr(<<Market(1, JNum(2))>>)
      [] text = MarketsNullBody -> JArr(<<Market(1, JNull)>>)
      [] text = EmptyListBody -> JArr(<< >>)
      [] text = ErrorBody -> JObj(("error" :> JStr("coin not found")))
      [] text = ExchangesBody ->
             JArr(<< JObj(("id" :> JStr("bitmex") @@ "name" :> JStr("BitMEX"))),
                     JObj(("name" :> JStr("Unlisted"))),
                     JObj(("id" :> JStr("bybit"))) >>)
      [] text = ExchangesOneBody ->
             JArr(<<JObj(("id" :> JStr("bitmex") @@ "name" :> JStr("BitMEX")))>>)
      [] text = TickersBody ->
             JObj(("tickers" :>
                     JArr(<< JObj(( "symbol" :> JStr("BTCUSD")
                                    @@ "converted_volume" :>
                                         JObj(("btc" :> JNum(1))) )),
                             JObj(( "symbol" :> JStr("ETHUSD")
                                    @@ "converted_volume" :>
                                         JObj(("btc" :> JNum(2))) )) >>)))
      [] text = NoTickersBody -> JObj(("tickers" :> JArr(<< >>)))
      [] OTHER -> NotJson

(***************************************************************************)
(* CoinGeckoAPI: usage record.                                             *)
(***************************************************************************)
RateLimitWait == 3

DefaultUsageData ==
    ( "total_calls" :> PyInt(0) @@ "calls_today" :> PyInt(0)
      @@ "first_call_date" :> PyNone @@ "last_call_date" :> PyNone
      @@ "rate_limit_info" :> PyDict(EmptyMap)
      @@ "monthly_usage" :> PyDict(EmptyMap)
      @@ "endpoints_called" :> PyDict(EmptyMap) )

HeadersToExtract ==
    ( "x-ratelimit-limit" :> "limit"
      @@ "x-ratelimit-remaining" :> "remaining"
      @@ "x-ratelimit-reset" :> "reset"
      @@ "x-cg-pro-api-key" :> "api_key"
      @@ "x-cg-api-credits-remaining-second" :> "credits_remaining_second"
      @@ "x-cg-api-credits-remaining-minute" :> "credits_remaining_minute"
      @@ "x-cg-api-credits-remaining-month" :> "credits_remaining_month"
      @@ "x-cg-api-credits-used-month" :> "credits_used_month"
      @@ "x-cg-api-credit-monthly-limit" :> "credits_monthly_limit" )

ExtractRateLimitHeaders(headers) ==
    LET present == {h \in DOMAIN HeadersToExtract : h \in DOMAIN headers}
        keyOf(k) == CHOOSE h \in present : HeadersToExtract[h] = k
    IN  PyDict([k \in {HeadersToExtract[h] : h \in present} |->
                  IF IsIntLiteral(headers[keyOf(k)])
                  THEN PyInt(IntOf(headers[keyOf(k)]))
                  ELSE PyStr(headers[keyOf(k)])])

\* A step of a method body: the dict as it stands, and the exception raised
\* ("" when none).
Ok(d) == [d |-> d, err |-> ""]

Raise(d, e) == [d |-> d, err |-> e]

\* Variant of the counter update that starts a new entry at 1 before adding 1.
IncrItemFromOne(d, key, sub) ==
    IF d[key].py # "dict"
    THEN Raise(d, "TypeError")
    ELSE LET items == d[key].items
             cur == IF sub \in DOMAIN items THEN items[sub] ELSE PyInt(1)
         IN  IF cur.py # "int"
             THEN Raise(d, "TypeError")
             ELSE Ok([d EXCEPT ![key] =
                        PyDict((sub :> PyInt(cur.n + 1)) @@ items)])

\* if sub not in d[key]: d[key][sub] = 0
\* d[key][sub] += 1
IncrItem(d, key, sub) ==
    IF d[key].py # "dict"
    THEN Raise(d, "TypeError")
    ELSE LET items == d[key].items
             cur == IF sub \in DOMAIN items THEN items[sub] ELSE PyInt(0)
         IN  IF cur.py # "int"
             THEN Raise(d, "TypeError")
             ELSE Ok([d EXCEPT ![key] =
                        PyDict((sub :> PyInt(cur.n + 1)) @@ items)])

\* Variant of the usage update that leaves the monthly counter alone.
UpdateUsageStatsSkipsMonth(d0, endpoint, rate_limit_info, today) ==
    IF d0["total_calls"].py # "int"
    THEN Raise(d0, "TypeError")
    ELSE
    LET d1 == [d0 EXCEPT !["total_calls"] = PyInt(d0["total_calls"].n + 1)]
        d2 == IF Truthy(d1["first_call_date"]) THEN d1
              ELSE [d1 EXCEPT !["first_call_date"] = PyStr(today)]
        d3 == [d2 EXCEPT !["last_call_date"] = PyStr(today)]
        d4 == IF "daily_calls" \in DOMAIN d3 THEN d3
              ELSE ("daily_calls" :> PyDict(EmptyMap)) @@ d3
        s5 == IncrItem(d4, "daily_calls", today)
    IN  IF s5.err # "" THEN s5 ELSE
    LET d6 == [s5.d EXCEPT !["calls_today"] = s5.d["daily_calls"].items[today]]
        s8 == IncrItem(d6, "endpoints_called", endpoint)
    IN  IF s8.err # "" THEN s8 ELSE
        IF Truthy(rate_limit_info)
        THEN Ok([s8.d EXCEPT !["rate_limit_info"] = rate_limit_info])
        ELSE s8

UpdateUsageStats(d0, endpoint, rate_limit_info, today) ==
    IF d0["total_calls"].py # "int"
    THEN Raise(d0, "TypeError")
    ELSE
    LET d1 == [d0 EXCEPT !["total_calls"] = PyInt(d0["total_calls"].n + 1)]
        d2 == IF Truthy(d1["first_call_date"]) THEN d1
              ELSE [d1 EXCEPT !["first_call_date"] = PyStr(today)]
        d3 == [d2 EXCEPT !["last_call_date"] = PyStr(today)]
        d4 == IF "daily_calls" \in DOMAIN d3 THEN d3
              ELSE ("daily_calls" :> PyDict(EmptyMap)) @@ d3
        s5 == IncrItem(d4, "daily_calls", today)
    IN  IF s5.err # "" THEN s5 ELSE
    LET d6 == [s5.d EXCEPT !["calls_today"] = s5.d["daily_calls"].items[today]]
        s7 == IncrItem(d6, "monthly_usage", MonthOf(today))
    IN  IF s7.err # "" THEN s7 ELSE
    LET s8 == IncrItem(s7.d, "endpoints_called", endpoint)
    IN  IF s8.err # "" THEN s8 ELSE
        IF Truthy(rate_limit_info)
        THEN Ok([s8.d EXCEPT !["rate_limit_info"] = rate_limit_info])
        ELSE s8

\* The key/value pair dict.update takes from one element of a sequence: the
\* element must itself be a sequence of length two with a hashable first item.
\* (Of the strings of the model only the header values "29" and "30" are two
\* characters long; an object of two keys gives these keys, and keys that are
\* numbers are written as their text.)
PairOf(el) ==
    CASE el.py = "list" ->
             IF Len(el.elems) # 2 THEN [err |-> "ValueError"]
             ELSE IF el.elems[1].py = "str"
             THEN [err |-> "", key |-> el.elems[1].s, value |-> el.elems[2]]
             ELSE IF el.elems[1].py = "int"
             THEN [err |-> "", key |-> ToString(el.elems[1].n),
                   value |-> el.elems[2]]
             ELSE [err |-> "TypeError"]
      [] el.py = "str" ->
             IF el.s = "29" THEN [err |-> "", key |-> "2", value |-> PyStr("9")]
             ELSE IF el.s = "30"
             THEN [err |-> "", key |-> "3", value |-> PyStr("0")]
             ELSE [err |-> "ValueError"]
      [] el.py = "dict" ->
             IF Cardinality(DOMAIN el.items) # 2 THEN [err |-> "ValueError"]
             ELSE LET k == CHOOSE k \in DOMAIN el.items : TRUE
                      v == CHOOSE v \in DOMAIN el.items : v # k
                  IN  [err |-> "", key |-> k, value |-> PyStr(v)]
      [] OTHER -> [err |-> "TypeError"]

\* dict.update over a sequence: the pairs are stored one by one, and the pairs
\* stored before an element that is no pair stay.
RECURSIVE MergeFromSeq(_, _)
MergeFromSeq(d, elems) ==
    IF Len(elems) = 0 THEN Ok(d)
    ELSE LET pair == PairOf(Head(elems))
         IN  IF pair.err # "" THEN Raise(d, pair.err)
             ELSE MergeFromSeq((pair.key :> pair.value) @@ d, Tail(elems))

\* Variant of the merge in which the keys already in memory win.
DictUpdateKeepsExisting(d, saved) ==
    CASE saved.py = "dict" ->
             Ok([k \in DOMAIN d \cup DOMAIN saved.items |->
                   IF k \in DOMAIN d THEN d[k] ELSE saved.items[k]])
      [] OTHER -> Raise(d, "TypeError")

\* self.usage_data.update(saved_data): a mapping is merged key by key, a
\* sequence pair by pair, and anything else is rejected.
DictUpdate(d, saved) ==
    CASE saved.py = "dict" ->
             Ok([k \in DOMAIN d \cup DOMAIN saved.items |->
                   IF k \in DOMAIN saved.items THEN saved.items[k] ELSE d[k]])
      [] saved.py = "list" -> MergeFromSeq(d, saved.elems)
      [] saved.py = "str" /\ saved.s = "" -> Ok(d)
      [] saved.py = "str" /\ saved.s # "" -> Raise(d, "ValueError")
      [] OTHER -> Raise(d, "TypeError")

NoFile == [kind |-> "absent"]

UnreadableFile == [kind |-> "unreadable"]

TextFile(doc) == [kind |-> "text", doc |-> doc]

\* _load_usage_data: every exception is swallowed.
LoadUsageData(d, f) ==
    IF f.kind = "absent" THEN d
    ELSE IF f.kind = "unreadable" THEN d
    ELSE IF f.doc = NotJson THEN d
    ELSE DictUpdate(d, JsonLoad(f.doc)).d

\* _save_usage_data: open(usage_file, 'w') fails when the file cannot be
\* written, and the exception is swallowed.
SaveUsageData(d, f, canWrite) ==
    IF canWrite THEN TextFile(JsonDump(PyDict(d))) ELSE f

\* response.raise_for_status()
RaisesForStatus(status_code) == status_code >= 400 /\ status_code < 600

\* Variant of the throttle that sleeps for the time already elapsed instead
\* of the remainder.
SleepDurationElapsed(current_time, last) ==
    IF current_time - last < RateLimitWait
    THEN current_time - last
    ELSE 0

\* _respect_rate_limit: the duration handed to time.sleep (0: no sleep).
SleepDuration(current_time, last) ==
    IF current_time - last < RateLimitWait
    THEN RateLimitWait - (current_time - last)
    ELSE 0

NoOutcome == [kind |-> "none"]

Returned(v) == [kind |-> "returned", value |-> v]

Raised(e) == [kind |-> "raised", exc |-> e]

\* except requests.exceptions.RequestException as e: raise Exception(error_msg)
RequestError == Raised("API request error")

\* response.json(): requests raises its JSONDecodeError, a RequestException,
\* on a body that is not JSON.
ResponseJson(text) ==
    IF JsonParse(text) = NotJson
    THEN RequestError
    ELSE Returned(JsonLoad(JsonParse(text)))

\* Variant of the tail of _make_request that also counts a call whose
\* transport raised.
FinishRequestCountsAll(d, f, canWrite, endpoint, resp, today) ==
    LET info == IF resp.kind = "raised" THEN PyDict(EmptyMap)
                ELSE ExtractRateLimitHeaders(resp.headers)
        upd == UpdateUsageStats(d, endpoint, info, today)
    IN  IF upd.err # ""
        THEN [d |-> upd.d, f |-> f, saved |-> FALSE,
              outcome |-> Raised(upd.err)]
        ELSE [d |-> upd.d,
              f |-> SaveUsageData(upd.d, f, canWrite),
              saved |-> canWrite,
              outcome |-> IF resp.kind = "raised" THEN RequestError
                          ELSE IF RaisesForStatus(resp.status_code)
                          THEN RequestError
                          ELSE ResponseJson(resp.text)]

\* Variant of the tail of _make_request in which a failed write of the usage
\* file reaches the caller.
FinishRequestWriteRaises(d, f, canWrite, endpoint, resp, today) ==
    IF resp.kind = "raised"
    THEN [d |-> d, f |-> f, saved |-> FALSE, outcome |-> RequestError]
    ELSE LET info == ExtractRateLimitHeaders(resp.headers)
             upd == UpdateUsageStats(d, endpoint, info, today)
         IN  IF upd.err # ""
             THEN [d |-> upd.d, f |-> f, saved |-> FALSE,
                   outcome |-> Raised(upd.err)]
             ELSE [d |-> upd.d,
                   f |-> SaveUsageData(upd.d, f, canWrite),
                   saved |-> canWrite,
                   outcome |-> IF ~canWrite THEN Raised("OSError")
                               ELSE IF RaisesForStatus(resp.status_code)
                               THEN RequestError
                               ELSE ResponseJson(resp.text)]

\* _make_request from the return of session.get on: the usage record, the
\* usage file, whether the file was written, and the outcome handed to the
\* caller.
FinishRequest(d, f, canWrite, endpoint, resp, today) ==
    IF resp.kind = "raised"
    THEN [d |-> d, f |-> f, saved |-> FALSE, outcome |-> RequestError]
    ELSE LET info == ExtractRateLimitHeaders(resp.headers)
             upd == UpdateUsageStats(d, endpoint, info, today)
         IN  IF upd.err # ""
             THEN [d |-> upd.d, f |-> f, saved |-> FALSE,
                   outcome |-> Raised(upd.err)]
             ELSE [d |-> upd.d,
                   f |-> SaveUsageData(upd.d, f, canWrite),
                   saved |-> canWrite,
                   outcome |-> IF RaisesForStatus(resp.status_code)
                               THEN RequestError
                               ELSE ResponseJson(resp.text)]

\* The usage file a previous run leaves after one counted call.
WrittenFile ==
    TextFile(JsonDump(PyDict(
        UpdateUsageStats(DefaultUsageData, "simple/price",
                         PyDict(("remaining" :> PyInt(29))), Calendar[1]).d)))

\* Possible contents of ~/.coingecko_usage.json when the CLI starts.
UsageFiles ==
    { NoFile, UnreadableFile, TextFile(NotJson), TextFile(JNum(5)),
      WrittenFile,
      TextFile(JObj(("total_calls" :> JStr("many")))),
      TextFile(JObj(("monthly_usage" :> JNull))),
      TextFile(JArr(<<JArr(<<JStr("total_calls"), JNum(7)>>), JNum(5)>>)) }

(***************************************************************************)
(* State.                                                                  *)
(***************************************************************************)
VARIABLES
    env_base_url,       \* os.getenv("COINGECKO_BASE_URL")
    env_api_key,        \* os.getenv("COINGECKO_API_KEY")
    usage_file,         \* content of ~/.coingecko_usage.json
    writable,           \* whether open(usage_file, 'w') succeeds
    now,                \* time.time(), in ticks
    today,              \* the calendar date
    pc,                 \* position of the process
    runs,               \* processes started so far
    calls,              \* _make_request calls started so far
    last_request_time,  \* self.last_request_time
    usage_data,         \* self.usage_data
    endpoint,           \* endpoint of the call in progress
    response,           \* what session.get gave
    outcome,            \* what _make_request hands to its caller
    gets,               \* session.get calls made by the call in progress
    slept,              \* duration handed to time.sleep by the call in progress
    pre,                \* usage record and file when the call started
    starts,             \* time stamps of the requests of this client
    hist,               \* completed calls of this client
    saved,              \* the usage record last written to the file
    frame,              \* the function of the CLI that is using the client
    ledger,             \* the usage file at the start and the calls since
    peer                \* a second CLI process sharing the usage file

vars == <<env_base_url, env_api_key, usage_file, writable, now, today, pc,
          runs, calls, last_request_time, usage_data, endpoint, response,
          outcome, gets, slept, pre, starts, hist, saved, frame, ledger,
          peer>>

NoSnapshot == [taken |-> FALSE]

\* Summary of the calls this client has completed: whether it was built
\* with the default usage record, how many calls, how many returned a value,
\* how many got an HTTP response, the endpoints and days they were made on,
\* and the time at which the last one ended.
NoHistory ==
    [fresh |-> FALSE, fetches |-> 0, returned |-> 0, responded |-> 0,
     endpoints |-> {}, days |-> {}, arrived |-> 0]

Record(h, e, day, resp, out, at) ==
    [fresh |-> h.fresh,
     fetches |-> h.fetches + 1,
     returned |-> h.returned + (IF out.kind = "returned" THEN 1 ELSE 0),
     responded |-> h.responded + (IF resp.kind = "http" THEN 1 ELSE 0),
     endpoints |-> h.endpoints \cup {e},
     days |-> h.days \cup {day},
     arrived |-> at]

NotSaved == [valid |-> FALSE]

NoFrame == [fn |-> "none"]

\* The usage file as the first process found it, and the calls counted
\* since then (those whose _update_usage_stats ran to its end), over all
\* processes of the sequence: in all, by endpoint and by day.
NoCalls(f) ==
    [file |-> f, total |-> 0, by_endpoint |-> [e \in Endpoints |-> 0],
     by_day |-> [day \in Days |-> 0]]

Tally(l, e, day) ==
    [l EXCEPT !.total = @ + 1, !.by_endpoint[e] = @ + 1, !.by_day[day] = @ + 1]

\* A second process before it has built its client.
PeerAtStart ==
    [pc |-> "start", usage_data |-> DefaultUsageData, calls |-> 0,
     counted |-> 0]

InitAny ==
    /\ env_base_url \in EnvValues
    /\ env_api_key \in EnvValues
    /\ usage_file \in UsageFiles
    /\ writable \in BOOLEAN
    /\ now = RateLimitWait
    /\ today = Calendar[1]
    /\ pc = "start"
    /\ runs = 1
    /\ calls = 0
    /\ last_request_time = 0
    /\ usage_data = DefaultUsageData
    /\ endpoint = ""
    /\ response = NoResponse
    /\ outcome = NoOutcome
    /\ gets = 0
    /\ slept = 0
    /\ pre = NoSnapshot
    /\ starts = << >>
    /\ hist = NoHistory
    /\ saved = NotSaved
    /\ frame = NoFrame
    /\ peer = PeerAtStart

(***************************************************************************)
(* Actions.                                                                *)
(***************************************************************************)

\* get_usage_stats(): the usage record itself, as it stands.
GetUsageStats == usage_data

\* The class body of CoinGeckoAPI, run when app.api is imported.
ClassBody ==
    /\ pc = "start"
    /\ pc' = IF env_base_url = PyNone \/ env_api_key = PyNone
             THEN "config_error"
             ELSE "class_defined"
    /\ UNCHANGED <<env_base_url, env_api_key, usage_file, writable, now, today,
                   runs, calls, last_request_time, usage_data, endpoint,
                   response, outcome, gets, slept, pre, starts, hist, saved,
                   frame, ledger, peer>>

\* Variant of the constructor that does not read the usage file.
ConstructFromDefaults ==
    /\ pc = "class_defined"
    /\ last_request_time' = 0
    /\ usage_data' = DefaultUsageData
    /\ starts' = << >>
    /\ hist' = [NoHistory EXCEPT !.fresh = TRUE]
    /\ pc' = "idle"
    /\ UNCHANGED <<env_base_url, env_api_key, usage_file, writable, now, today,
                   runs, calls, endpoint, response, outcome, gets, slept, pre,
                   saved, frame, ledger, peer>>

\* api = CoinGeckoAPI(): __init__, which ends with _load_usage_data().
Construct ==
    /\ pc = "class_defined"
    /\ last_request_time' = 0
    /\ usage_data' = LoadUsageData(DefaultUsageData, usage_file)
    /\ starts' = << >>
    /\ hist' = [NoHistory EXCEPT !.fresh = (usage_data' = DefaultUsageData)]
    /\ pc' = "idle"
    /\ UNCHANGED <<env_base_url, env_api_key, usage_file, writable, now, today,
                   runs, calls, endpoint, response, outcome, gets, slept, pre,
                   saved, frame, ledger, peer>>

\* A caller enters _make_request(endpoint, params).
StartFetch(e) ==
    /\ pc = "idle"
    /\ calls < MaxCalls
    /\ calls' = calls + 1
    /\ endpoint' = e
    /\ gets' = 0
    /\ slept' = 0
    /\ pre' = [taken |-> TRUE, usage_data |-> usage_data,
               usage_file |-> usage_file, at |-> now]
    /\ pc' = "throttle"
    /\ UNCHANGED <<env_base_url, env_api_key, usage_file, writable, now, today,
                   runs, last_request_time, usage_data, response, outcome,
                   starts, hist, saved, ledger, peer>>

\* Variant of the throttle that waits the whole interval whenever the server
\* has sent rate-limit headers.
RespectRateLimitHonoursHeaders(over) ==
    /\ pc = "throttle"
    /\ LET d == IF Truthy(usage_data["rate_limit_info"])
                THEN RateLimitWait
                ELSE SleepDuration(now, last_request_time)
           woken == IF d > 0 THEN now + d + over ELSE now
       IN  /\ woken <= MaxTime
           /\ slept' = d
           /\ now' = woken
           /\ last_request_time' = woken
           /\ starts' = Append(starts, woken)
    /\ pc' = "get"
    /\ UNCHANGED <<env_base_url, env_api_key, usage_file, writable, today,
                   runs, calls, usage_data, endpoint, response, outcome, gets,
                   pre, hist, saved, frame, ledger, peer>>

\* Variant of the throttle that measures the elapsed time from the end of the
\* previous call instead of its dispatch.
RespectRateLimitFromArrival(over) ==
    /\ pc = "throttle"
    /\ LET d == SleepDuration(now, IF hist.fetches > 0 THEN hist.arrived
                                   ELSE last_request_time)
           woken == IF d > 0 THEN now + d + over ELSE now
       IN  /\ woken <= MaxTime
           /\ slept' = d
           /\ now' = woken
           /\ last_request_time' = woken
           /\ starts' = Append(starts, woken)
    /\ pc' = "get"
    /\ UNCHANGED <<env_base_url, env_api_key, usage_file, writable, today,
                   runs, calls, usage_data, endpoint, response, outcome, gets,
                   pre, hist, saved, frame, ledger, peer>>

\* _respect_rate_limit(): time.sleep lasts the duration asked for plus
\* `over` (it never returns early).
RespectRateLimit(over) ==
    /\ pc = "throttle"
    /\ LET d == SleepDuration(now, last_request_time)
           woken == IF d > 0 THEN now + d + over ELSE now
       IN  /\ woken <= MaxTime
           /\ slept' = d
           /\ now' = woken
           /\ last_request_time' = woken
           /\ starts' = Append(starts, woken)
    /\ pc' = "get"
    /\ UNCHANGED <<env_base_url, env_api_key, usage_file, writable, today,
                   runs, calls, usage_data, endpoint, response, outcome, gets,
                   pre, hist, saved, frame, ledger, peer>>

\* What session.get can give: with an empty base URL the URL has no scheme
\* and requests raises before anything is sent.
PossibleResponses ==
    IF env_base_url = PyStr("")
    THEN {TransportError}
    ELSE {TransportError} \cup HttpResponses
         \cup UNION {ResponsesFor(e) : e \in QueryEndpoints}

\* Variant of the try block that sends the GET again after a failed one.
RequestWithRetry(r, latency) ==
    /\ pc = "get"
    /\ r \in PossibleResponses
    /\ now + latency <= MaxTime
    /\ now' = now + latency
    /\ \E fin \in {FinishRequest(usage_data, usage_file, writable, endpoint,
                                  r, today)} :
         /\ response' = r
         /\ usage_data' = fin.d
         /\ usage_file' = fin.f
         /\ outcome' = fin.outcome
         /\ hist' = Record(hist, endpoint, today, r, fin.outcome, now')
         /\ saved' = IF fin.saved THEN [valid |-> TRUE, data |-> fin.d]
                     ELSE saved
         /\ pc' = IF fin.outcome = RequestError /\ gets = 0
                  THEN "get" ELSE "done"
    /\ gets' = gets + 1
    /\ UNCHANGED <<env_base_url, env_api_key, writable, today, runs, calls,
                   last_request_time, endpoint, slept, pre, starts, frame, peer>>

\* Variant of the try block that takes the time stamp when the response
\* arrives.
RequestStampsOnArrival(r, latency) ==
    /\ pc = "get"
    /\ r \in PossibleResponses
    /\ now + latency <= MaxTime
    /\ now' = now + latency
    /\ last_request_time' = now'
    /\ \E fin \in {FinishRequest(usage_data, usage_file, writable, endpoint,
                                  r, today)} :
         /\ response' = r
         /\ usage_data' = fin.d
         /\ usage_file' = fin.f
         /\ outcome' = fin.outcome
         /\ hist' = Record(hist, endpoint, today, r, fin.outcome, now')
         /\ saved' = IF fin.saved THEN [valid |-> TRUE, data |-> fin.d]
                     ELSE saved
    /\ gets' = gets + 1
    /\ pc' = "done"
    /\ UNCHANGED <<env_base_url, env_api_key, writable, today, runs, calls,
                   endpoint, slept, pre, starts, frame, peer>>

\* The try block of _make_request: session.get(url, params=params,
\* timeout=10), which takes `latency`, then usage tracking, raise_for_status,
\* json, and the except clause.
Request(r, latency) ==
    /\ pc = "get"
    /\ r \in PossibleResponses
    /\ now + latency <= MaxTime
    /\ now' = now + latency
    /\ \E fin \in {FinishRequest(usage_data, usage_file, writable, endpoint,
                                  r, today)} :
         /\ response' = r
         /\ usage_data' = fin.d
         /\ usage_file' = fin.f
         /\ outcome' = fin.outcome
         /\ hist' = Record(hist, endpoint, today, r, fin.outcome, now')
         /\ saved' = IF fin.saved THEN [valid |-> TRUE, data |-> fin.d]
                     ELSE saved
    /\ gets' = gets + 1
    /\ pc' = "done"
    /\ UNCHANGED <<env_base_url, env_api_key, writable, today, runs, calls,
                   last_request_time, endpoint, slept, pre, starts, frame, peer>>

\* Variant of the end of a call in which only a call that returned a value
\* gives control back.
ReturnAfterSuccessOnly ==
    /\ pc = "done"
    /\ outcome.kind = "returned"
    /\ pc' = "idle"
    /\ endpoint' = ""
    /\ response' = NoResponse
    /\ outcome' = NoOutcome
    /\ gets' = 0
    /\ slept' = 0
    /\ pre' = NoSnapshot
    /\ UNCHANGED <<env_base_url, env_api_key, usage_file, writable, now, today,
                   runs, calls, last_request_time, usage_data, starts, hist,
                   saved, ledger, peer>>

\* The caller has the value or the exception; the client is idle again.
Return ==
    /\ pc = "done"
    /\ pc' = "idle"
    /\ endpoint' = ""
    /\ response' = NoResponse
    /\ outcome' = NoOutcome
    /\ gets' = 0
    /\ slept' = 0
    /\ pre' = NoSnapshot
    /\ UNCHANGED <<env_base_url, env_api_key, usage_file, writable, now, today,
                   runs, calls, last_request_time, usage_data, starts, hist,
                   saved, ledger, peer>>

\* Time passes between two calls (the time a response takes to arrive
\* included).
Tick ==
    /\ pc = "idle"
    /\ now < MaxTime
    /\ now' = now + 1
    /\ UNCHANGED <<env_base_url, env_api_key, usage_file, writable, today, pc,
                   runs, calls, last_request_time, usage_data, endpoint,
                   response, outcome, gets, slept, pre, starts, hist, saved,
                   frame, ledger, peer>>

\* Midnight passes between two calls.
DayRollover ==
    /\ pc = "idle"
    /\ today # Calendar[Len(Calendar)]
    /\ today' = NextDay(today)
    /\ UNCHANGED <<env_base_url, env_api_key, usage_file, writable, now, pc,
                   runs, calls, last_request_time, usage_data, endpoint,
                   response, outcome, gets, slept, pre, starts, hist, saved,
                   frame, ledger, peer>>

\* The CLI command ends and a later invocation starts a new process.
Exit ==
    /\ pc = "idle"
    /\ runs < MaxRuns
    /\ runs' = runs + 1
    /\ pc' = "start"
    /\ last_request_time' = 0
    /\ usage_data' = DefaultUsageData
    /\ starts' = << >>
    /\ hist' = NoHistory
    /\ UNCHANGED <<env_base_url, env_api_key, usage_file, writable, now, today,
                   calls, endpoint, response, outcome, gets, slept, pre, saved,
                   frame, ledger, peer>>

(***************************************************************************)
(* Functions of the CLI that use the client: get_trending, get_api_usage   *)
(* and get_current_prices.  Each runs in a frame of its own and calls the  *)
(* client through _make_request.                                           *)
(***************************************************************************)
clientVars ==
    <<env_base_url, env_api_key, usage_file, writable, now, today, pc, runs,
      calls, last_request_time, usage_data, endpoint, response, outcome, gets,
      slept, pre, starts, hist, saved, ledger>>

\* key in v: membership for a dict or a list, TypeError for a value that is
\* no container.  (A string of the model contains a key only when it is that
\* key.)
In(key, v) ==
    CASE v.py = "dict" -> [err |-> "", is |-> key \in DOMAIN v.items]
      [] v.py = "list" ->
             [err |-> "",
              is |-> \E i \in DOMAIN v.elems : v.elems[i] = PyStr(key)]
      [] v.py = "str" -> [err |-> "", is |-> v.s = key]
      [] OTHER -> [err |-> "TypeError", is |-> FALSE]

\* api.get_trending_nfts(): the "nfts" part of what _make_request gave.
ApiGetTrendingNfts(out) ==
    IF out.kind = "raised" THEN out
    ELSE LET response_ == out.value
         IN  IF ~Truthy(response_)
             THEN Returned(PyDict(("nfts" :> PyList(<< >>))))
             ELSE IF In("nfts", response_).err # ""
             THEN Raised(In("nfts", response_).err)
             ELSE IF ~In("nfts", response_).is
             THEN Returned(PyDict(("nfts" :> PyList(<< >>))))
             ELSE IF response_.py # "dict"
             THEN Raised("TypeError")
             ELSE Returned(PyDict(("nfts" :> response_.items["nfts"])))

\* Variant of the coins part of get_trending that stores nothing when the
\* call raised.
TrendingCoinsResultNoDefault(trending_data, out) ==
    IF out.kind = "raised"
    THEN [td |-> trending_data, errors |-> 1]
    ELSE LET coins_data == out.value
         IN  IF ~Truthy(coins_data) \/ coins_data.py # "dict"
             THEN [td |-> trending_data, errors |-> 0]
             ELSE IF "coins" \notin DOMAIN coins_data.items
             THEN [td |-> trending_data, errors |-> 0]
             ELSE [td |-> ("coins" :> coins_data.items["coins"])
                            @@ trending_data,
                   errors |-> 0]

\* get_trending, the coins part: what trending_data becomes once
\* api.get_trending_coins() has returned or raised, and the errors printed.
TrendingCoinsResult(trending_data, out) ==
    LET failed == [td |-> ("coins" :> PyList(<< >>)) @@ trending_data,
                   errors |-> 1]
        kept == [td |-> trending_data, errors |-> 0]
    IN  IF out.kind = "raised" THEN failed
        ELSE LET coins_data == out.value
             IN  IF ~Truthy(coins_data) THEN kept
                 ELSE IF In("coins", coins_data).err # "" THEN failed
                 ELSE IF ~In("coins", coins_data).is THEN kept
                 ELSE IF coins_data.py # "dict" THEN failed
                 ELSE LET with == ("coins" :> coins_data.items["coins"])
                                    @@ trending_data
                      IN  [td |-> IF "updated_at" \in DOMAIN coins_data.items
                                  THEN ("updated_at" :>
                                          coins_data.items["updated_at"])
                                       @@ with
                                  ELSE with,
                           errors |-> 0]

\* get_trending, the NFTs part.
TrendingNftsResult(trending_data, out) ==
    LET failed == [td |-> ("nfts" :> PyList(<< >>)) @@ trending_data,
                   errors |-> 1]
        kept == [td |-> trending_data, errors |-> 0]
    IN  IF out.kind = "raised" THEN failed
        ELSE LET nfts_data == out.value
             IN  IF ~Truthy(nfts_data) THEN kept
                 ELSE IF In("nfts", nfts_data).err # "" THEN failed
                 ELSE IF ~In("nfts", nfts_data).is THEN kept
                 ELSE IF nfts_data.py # "dict" THEN failed
                 ELSE LET with == ("nfts" :> nfts_data.items["nfts"])
                                    @@ trending_data
                      IN  [td |-> IF /\ "updated_at" \in DOMAIN nfts_data.items
                                     /\ "updated_at" \notin DOMAIN trending_data
                                  THEN ("updated_at" :>
                                          nfts_data.items["updated_at"])
                                       @@ with
                                  ELSE with,
                           errors |-> 0]

\* A row of display_trending_coins / display_trending_nfts raises when the
\* entry or its "item" is no dict, the symbol is no string, the name cannot
\* be rendered, or an amount to format is no number.
RowRaises(el, amounts) ==
    IF el.py # "dict" THEN TRUE
    ELSE LET item == IF "item" \in DOMAIN el.items THEN el.items["item"]
                     ELSE PyDict(EmptyMap)
         IN  IF item.py # "dict" THEN TRUE
             ELSE \/ /\ "symbol" \in DOMAIN item.items
                     /\ item.items["symbol"].py # "str"
                  \/ /\ "name" \in DOMAIN item.items
                     /\ item.items["name"].py \notin {"str", "None"}
                  \/ \E a \in amounts :
                       /\ a \in DOMAIN item.items
                       /\ Truthy(item.items[a])
                       /\ item.items[a].py # "int"

DisplayRaises(trending_data, key, amounts) ==
    LET v == trending_data[key]
    IN  IF ~Truthy(v) THEN FALSE
        ELSE IF v.py = "list"
        THEN \E i \in DOMAIN v.elems : RowRaises(v.elems[i], amounts)
        ELSE TRUE

\* get_trending from the display on: any exception of the display or of
\* save_trending_data ends in the outer except clause, which returns None.
TrendingFinish(trending_data, data_type, display, save, canSave) ==
    LET shown(key, types) ==
            display /\ data_type \in types /\ key \in DOMAIN trending_data
        raises ==
            \/ /\ shown("coins", {"coins", "all"})
               /\ DisplayRaises(trending_data, "coins", {})
            \/ /\ shown("nfts", {"nfts", "all"})
               /\ DisplayRaises(trending_data, "nfts",
                                {"volume_24h", "market_cap"})
            \/ save /\ ~canSave
    IN  IF raises
        THEN [result |-> Returned(PyNone), errors |-> 1]
        ELSE [result |-> Returned(PyDict(trending_data)), errors |-> 0]

TrendingTypes == {"coins", "nfts", "all"}

\* get_trending(data_type, display, save) is entered.
CallGetTrending(data_type, display, save) ==
    /\ pc = "idle"
    /\ frame = NoFrame
    /\ calls + (IF data_type = "all" THEN 2 ELSE 1) <= MaxCalls
    /\ frame' = [fn |-> "get_trending",
                 step |-> IF data_type \in {"coins", "all"} THEN "coins"
                          ELSE "nfts",
                 data_type |-> data_type, display |-> display, save |-> save,
                 trending_data |-> EmptyMap,
                 coins_out |-> NoOutcome, nfts_out |-> NoOutcome,
                 errors |-> 0, result |-> NoOutcome]
    /\ UNCHANGED <<clientVars, peer>>

\* coins_data = api.get_trending_coins()
TrendingCoinsCall ==
    /\ frame.fn = "get_trending"
    /\ frame.step = "coins"
    /\ StartFetch("search/trending")
    /\ frame' = [frame EXCEPT !.step = "coins_wait"]

TrendingCoinsDone ==
    /\ frame.fn = "get_trending"
    /\ frame.step = "coins_wait"
    /\ Return
    /\ \E r \in {TrendingCoinsResult(frame.trending_data, outcome)} :
         frame' = [frame EXCEPT
                     !.trending_data = r.td,
                     !.errors = @ + r.errors,
                     !.coins_out = outcome,
                     !.step = IF frame.data_type \in {"nfts", "all"}
                              THEN "nfts" ELSE "finish"]

\* nfts_data = api.get_trending_nfts()
TrendingNftsCall ==
    /\ frame.fn = "get_trending"
    /\ frame.step = "nfts"
    /\ StartFetch("search/trending")
    /\ frame' = [frame EXCEPT !.step = "nfts_wait"]

TrendingNftsDone ==
    /\ frame.fn = "get_trending"
    /\ frame.step = "nfts_wait"
    /\ Return
    /\ \E out \in {ApiGetTrendingNfts(outcome)} :
       \E r \in {TrendingNftsResult(frame.trending_data, out)} :
         frame' = [frame EXCEPT
                     !.trending_data = r.td,
                     !.errors = @ + r.errors,
                     !.nfts_out = out,
                     !.step = "finish"]

\* The display, the save (which fails when the file cannot be written) and
\* the return of get_trending.
TrendingReturn(canSave) ==
    /\ frame.fn = "get_trending"
    /\ frame.step = "finish"
    /\ \E r \in {TrendingFinish(frame.trending_data, frame.data_type,
                                frame.display, frame.save, canSave)} :
         frame' = [frame EXCEPT
                     !.result = r.result,
                     !.errors = @ + r.errors,
                     !.step = "returned"]
    /\ UNCHANGED <<clientVars, peer>>

\* format_price_table(price_data, ["usd"]) raises on data that is no dict of
\* dicts of numbers.
FormatPriceTableRaises(price_data) ==
    IF ~Truthy(price_data) THEN FALSE
    ELSE IF price_data.py # "dict" THEN TRUE
    ELSE \E coin_id \in DOMAIN price_data.items :
           LET prices == price_data.items[coin_id]
           IN  \/ In("usd", prices).err # ""
               \/ /\ In("usd", prices).is
                  /\ \/ prices.py # "dict"
                     \/ prices.items["usd"].py # "int"

\* Variant of get_current_prices that lets the error of the client through.
CurrentPricesResultReraises(out, display) ==
    IF out.kind = "raised"
    THEN [result |-> out, errors |-> 1]
    ELSE IF display /\ FormatPriceTableRaises(out.value)
    THEN [result |-> Returned(PyDict(EmptyMap)), errors |-> 1]
    ELSE [result |-> Returned(out.value), errors |-> 0]

\* get_current_prices once api.get_price has returned or raised: the value
\* handed back and the errors printed.
CurrentPricesResult(out, display) ==
    IF out.kind = "raised"
    THEN [result |-> Returned(PyDict(EmptyMap)), errors |-> 1]
    ELSE IF display /\ FormatPriceTableRaises(out.value)
    THEN [result |-> Returned(PyDict(EmptyMap)), errors |-> 1]
    ELSE [result |-> Returned(out.value), errors |-> 0]

\* get_current_prices(coin_ids, ["usd"], display): api.get_price is called.
CallGetCurrentPrices(display) ==
    /\ pc = "idle"
    /\ frame = NoFrame
    /\ StartFetch("simple/price")
    /\ frame' = [fn |-> "get_current_prices", step |-> "price_wait",
                 display |-> display, price_out |-> NoOutcome,
                 errors |-> 0, result |-> NoOutcome]

CurrentPricesDone ==
    /\ frame.fn = "get_current_prices"
    /\ frame.step = "price_wait"
    /\ Return
    /\ \E r \in {CurrentPricesResult(outcome, frame.display)} :
         frame' = [frame EXCEPT
                     !.price_out = outcome,
                     !.result = r.result,
                     !.errors = @ + r.errors,
                     !.step = "returned"]

\* Variant of get_api_usage that gives up when the refresh failed.
ApiUsageResultGivesUp(refresh_out, d) ==
    IF refresh_out.kind = "raised"
    THEN [warnings |-> 1, stats_reads |-> 0, result |-> Returned(PyNone)]
    ELSE [warnings |-> 0, stats_reads |-> 1, result |-> Returned(PyDict(d))]

\* get_api_usage after the refresh, if any: a warning when the refresh
\* raised, then return api.get_usage_stats().
ApiUsageResult(refresh_out, d) ==
    [warnings |-> IF refresh_out.kind = "raised" THEN 1 ELSE 0,
     stats_reads |-> 1,
     result |-> Returned(PyDict(d))]

\* get_api_usage(force_refresh): with force_refresh the lightweight call is
\* made first; without it the statistics are read at once.
CallGetApiUsage(force_refresh) ==
    /\ pc = "idle"
    /\ frame = NoFrame
    /\ IF force_refresh
       THEN /\ StartFetch("simple/supported_vs_currencies")
            /\ frame' = [fn |-> "get_api_usage", step |-> "refresh_wait",
                         force_refresh |-> TRUE,
                         api_calls |-> <<"get_supported_vs_currencies">>,
                         refresh_out |-> NoOutcome,
                         warnings |-> 0, stats_reads |-> 0,
                         result |-> NoOutcome]
       ELSE /\ \E r \in {ApiUsageResult(NoOutcome, usage_data)} :
                 frame' = [fn |-> "get_api_usage", step |-> "returned",
                           force_refresh |-> FALSE,
                           api_calls |-> << >>,
                           refresh_out |-> NoOutcome,
                           warnings |-> r.warnings,
                           stats_reads |-> r.stats_reads,
                           result |-> r.result]
            /\ UNCHANGED <<clientVars, peer>>

ApiUsageRefreshDone ==
    /\ frame.fn = "get_api_usage"
    /\ frame.step = "refresh_wait"
    /\ Return
    /\ \E r \in {ApiUsageResult(outcome, usage_data)} :
         frame' = [frame EXCEPT
                     !.refresh_out = outcome,
                     !.warnings = r.warnings,
                     !.stats_reads = r.stats_reads,
                     !.result = r.result,
                     !.step = "returned"]

(***************************************************************************)
(* get_newly_listed_coins: the new coins, filtered by age and cut to       *)
(* `limit`, then coins/markets in batches of batch_size coins.             *)
(***************************************************************************)
\* now - fromisoformat(OldDate), in days, on the days of the calendar.
DaysSince(day) == IF day = Calendar[1] THEN 395 ELSE 396

\* Whether the day filter keeps a coin: no date, a date that does not parse
\* (ValueError) and a date with a zone (TypeError when compared with the
\* naive cutoff) keep it; a naive date keeps it when not before the cutoff.
KeptByAge(coin, days, day) ==
    IF "date_added" \notin DOMAIN coin.items THEN TRUE
    ELSE IF ~Truthy(coin.items["date_added"]) THEN TRUE
    ELSE IF coin.items["date_added"].s = OldDate THEN DaysSince(day) <= days
    ELSE TRUE

\* Lines 50-81: the list as the batches see it, or the early return [] (no
\* coins) or the exception that its elements raise when they are no coins.
NewCoinsSelected(new_coins, days, limit, day) ==
    IF ~Truthy(new_coins) THEN [err |-> "none", coins |-> << >>]
    ELSE IF new_coins.py # "list" THEN [err |-> "TypeError", coins |-> << >>]
    ELSE IF \E k \in DOMAIN new_coins.elems :
              LET coin == new_coins.elems[k]
              IN  \/ coin.py # "dict"
                  \/ "id" \notin DOMAIN coin.items
                  \/ /\ "date_added" \in DOMAIN coin.items
                     /\ Truthy(coin.items["date_added"])
                     /\ coin.items["date_added"].py # "str"
    THEN [err |-> "TypeError", coins |-> << >>]
    ELSE LET keep(coin) == KeptByAge(coin, days, day)
             filtered_coins == IF days > 0
                               THEN SelectSeq(new_coins.elems, keep)
                               ELSE new_coins.elems
             n == IF Len(filtered_coins) < limit THEN Len(filtered_coins)
                  ELSE limit
         IN  [err |-> "", coins |-> SubSeq(filtered_coins, 1, n)]

\* batch = new_coins[i:i+batch_size], with i counted from 0.
BatchOf(new_coins, i) ==
    SubSeq(new_coins, i + 1,
           IF i + BatchSize < Len(new_coins) THEN i + BatchSize
           ELSE Len(new_coins))

NoMarketData ==
    ( "current_price" :> PyNone @@ "market_cap" :> PyNone
      @@ "total_volume" :> PyNone
      @@ "price_change_percentage_24h_in_currency" :> PyNone
      @@ "price_change_percentage_7d_in_currency" :> PyNone )

\* Lines 108-129: what one batch adds to coins_with_market_data.  The coins
\* are merged only under a market response that is a non-empty list.
BatchMerged(batch, batch_market_data) ==
    IF ~(Truthy(batch_market_data) /\ batch_market_data.py = "list")
    THEN [err |-> "", coins |-> << >>]
    ELSE LET md == batch_market_data.elems
         IN  IF \E j \in DOMAIN md :
                  md[j].py # "dict" \/ "id" \notin DOMAIN md[j].items
             THEN [err |-> "KeyError", coins |-> << >>]
             ELSE LET found(coin) ==
                          {j \in DOMAIN md : md[j].items["id"] = coin.items["id"]}
                      last(coin) ==
                          CHOOSE j \in found(coin) :
                            \A m \in found(coin) : m <= j
                  IN  [err |-> "",
                       coins |->
                         [k \in DOMAIN batch |->
                            IF found(batch[k]) # {}
                            THEN PyDict(md[last(batch[k])].items
                                        @@ batch[k].items)
                            ELSE PyDict(NoMarketData @@ batch[k].items)]]

\* display_newly_listed_coins raises on a row whose price change is None
\* (format_price_change(None)) or whose price or symbol is of a wrong type.
DisplayNewCoinsRaises(coins) ==
    \E k \in DOMAIN coins :
      LET get(key, default) == IF key \in DOMAIN coins[k].items
                               THEN coins[k].items[key]
                               ELSE default
      IN  \/ get("price_change_percentage_24h_in_currency", PyInt(0)).py
               # "int"
          \/ get("price_change_percentage_7d_in_currency", PyInt(0)).py
               # "int"
          \/ get("current_price", PyNone).py \notin {"None", "int"}
          \/ get("symbol", PyStr("N/A")).py # "str"

\* Lines 131-144: display, save, return; any exception gives [].
NewCoinsFinish(coins, display, save, canSave) ==
    IF (display /\ DisplayNewCoinsRaises(coins)) \/ (save /\ ~canSave)
    THEN [result |-> Returned(PyList(<< >>)), errors |-> 1]
    ELSE [result |-> Returned(PyList(coins)), errors |-> 0]

DaysChoices == {0, 14}

Limits == {2, 200}

\* get_newly_listed_coins(days=days, limit=limit, display, save) is entered
\* and asks for coins/list/new.
CallGetNewlyListed(days, limit, display, save) ==
    /\ pc = "idle"
    /\ frame = NoFrame
    /\ StartFetch("coins/list/new")
    /\ frame' = [fn |-> "get_newly_listed_coins", step |-> "list_wait",
                 days |-> days, limit |-> limit, display |-> display,
                 save |-> save, new_coins |-> << >>, i |-> 0,
                 coins_with_market_data |-> << >>, requests |-> 1,
                 failed |-> 0, errors |-> 0, result |-> NoOutcome]

\* coins/list/new has returned or raised.
NewCoinsListDone ==
    /\ frame.fn = "get_newly_listed_coins"
    /\ frame.step = "list_wait"
    /\ Return
    /\ IF outcome.kind = "raised"
       THEN frame' = [frame EXCEPT !.failed = @ + 1, !.errors = @ + 1,
                                   !.result = Returned(PyList(<< >>)),
                                   !.step = "returned"]
       ELSE \E sel \in {NewCoinsSelected(outcome.value, frame.days,
                                         frame.limit, today)} :
              IF sel.err # ""
              THEN frame' = [frame EXCEPT !.errors = @ + 1,
                                          !.result = Returned(PyList(<< >>)),
                                          !.step = "returned"]
              ELSE frame' = [frame EXCEPT !.new_coins = sel.coins,
                                          !.step = "batch"]

\* The loop over the batches asks for the market data of the next batch.
NewCoinsBatchCall ==
    /\ frame.fn = "get_newly_listed_coins"
    /\ frame.step = "batch"
    /\ frame.i < Len(frame.new_coins)
    /\ StartFetch("coins/markets")
    /\ frame' = [frame EXCEPT !.requests = @ + 1, !.step = "markets_wait"]

\* coins/markets has returned or raised for the batch.
NewCoinsBatchDone ==
    /\ frame.fn = "get_newly_listed_coins"
    /\ frame.step = "markets_wait"
    /\ Return
    /\ IF outcome.kind = "raised"
       THEN frame' = [frame EXCEPT !.failed = @ + 1, !.errors = @ + 1,
                                   !.result = Returned(PyList(<< >>)),
                                   !.step = "returned"]
       ELSE \E m \in {BatchMerged(BatchOf(frame.new_coins, frame.i),
                                  outcome.value)} :
              IF m.err # ""
              THEN frame' = [frame EXCEPT !.errors = @ + 1,
                                          !.result = Returned(PyList(<< >>)),
                                          !.step = "returned"]
              ELSE frame' = [frame EXCEPT
                               !.coins_with_market_data = @ \o m.coins,
                               !.i = @ + BatchSize,
                               !.step = "batch"]

\* After the last batch: display, save and return.
NewCoinsReturn(canSave) ==
    /\ frame.fn = "get_newly_listed_coins"
    /\ frame.step = "batch"
    /\ frame.i >= Len(frame.new_coins)
    /\ \E r \in {NewCoinsFinish(frame.coins_with_market_data, frame.display,
                                frame.save, canSave)} :
         frame' = [frame EXCEPT !.result = r.result,
                                !.errors = @ + r.errors,
                                !.step = "returned"]
    /\ UNCHANGED <<clientVars, peer>>

(***************************************************************************)
(* get_all_derivatives_tickers: the exchanges, then the tickers of every   *)
(* exchange that has an id.                                                *)
(***************************************************************************)
\* dict.get(key, default)
Get(d, key, default) == IF key \in DOMAIN d.items THEN d.items[key] ELSE default

\* Lines 399-406: the tickers one exchange adds to all_tickers.  Whatever
\* raises here is swallowed by the except clause of line 407, and the
\* tickers appended before it stay.
TickersCollected(exchange, exchange_id, out) ==
    IF out.kind = "raised" THEN << >>
    ELSE IF ~Truthy(out.value) THEN << >>
    ELSE IF In("tickers", out.value).err # "" THEN << >>
    ELSE IF ~In("tickers", out.value).is THEN << >>
    ELSE IF out.value.py # "dict" THEN << >>
    ELSE IF out.value.items["tickers"].py # "list" THEN << >>
    ELSE LET tickers == out.value.items["tickers"].elems
             bad == {j \in DOMAIN tickers : tickers[j].py # "dict"}
             n == IF bad = {} THEN Len(tickers)
                  ELSE (CHOOSE j \in bad : \A m \in bad : j <= m) - 1
         IN  [j \in 1..n |->
                PyDict( ("exchange_id" :> exchange_id)
                        @@ ("exchange_name" :>
                              Get(exchange, "name", PyStr("Unknown")))
                        @@ tickers[j].items )]

\* float(x.get('converted_volume', {}).get('btc', 0) or 0)
VolumeRaises(ticker) ==
    LET cv == Get(ticker, "converted_volume", PyDict(EmptyMap))
    IN  \/ cv.py # "dict"
        \/ /\ Truthy(Get(cv, "btc", PyInt(0)))
           /\ Get(cv, "btc", PyInt(0)).py # "int"
           /\ ~( /\ Get(cv, "btc", PyInt(0)).py = "str"
                 /\ IsIntLiteral(Get(cv, "btc", PyInt(0)).s) )

Volume(ticker) ==
    LET btc == Get(Get(ticker, "converted_volume", PyDict(EmptyMap)), "btc",
                   PyInt(0))
    IN  IF ~Truthy(btc) THEN 0
        ELSE IF btc.py = "int" THEN btc.n
        ELSE IntOf(btc.s)

\* list.sort(key=volume, reverse=True): highest volume first, tickers of
\* equal volume in the order they had.
RECURSIVE SortedByVolume(_)
SortedByVolume(tickers) ==
    IF Len(tickers) = 0 THEN << >>
    ELSE LET rest == SortedByVolume(SubSeq(tickers, 1, Len(tickers) - 1))
             t == tickers[Len(tickers)]
             n == Cardinality({j \in DOMAIN rest :
                                 Volume(rest[j]) >= Volume(t)})
         IN  SubSeq(rest, 1, n) \o <<t>> \o SubSeq(rest, n + 1, Len(rest))

\* filter_by in field.lower(), for the filter and the texts of the model.
LowerHas(field, filter_by) == filter_by = "eth" /\ field = "ETHUSD"

FilterFields == {"base", "target", "symbol", "exchange_id", "exchange_name"}

\* .lower() on a field that is no string raises.
FilterRaises(tickers) ==
    \E j \in DOMAIN tickers, key \in FilterFields :
      Get(tickers[j], key, PyStr("")).py # "str"

Filtered(tickers, filter_by) ==
    LET match(ticker) ==
            \E key \in FilterFields :
              LowerHas(Get(ticker, key, PyStr("")).s, filter_by.s)
    IN  SelectSeq(tickers, match)

\* display_all_derivatives_tickers raises on a cell that cannot be rendered
\* or on a volume that is no dict.
DisplayAllTickersRaises(tickers) ==
    \E j \in DOMAIN tickers :
      \/ Get(tickers[j], "exchange_name", PyStr("Unknown")).py
           \notin {"str", "None"}
      \/ Get(tickers[j], "symbol", PyStr("Unknown")).py \notin {"str", "None"}
      \/ Get(tickers[j], "contract_type", PyStr("N/A")).py
           \notin {"str", "None"}
      \/ Get(tickers[j], "converted_last", PyDict(EmptyMap)).py # "dict"
      \/ Get(tickers[j], "converted_volume", PyDict(EmptyMap)).py # "dict"

\* Lines 413-441: nothing collected gives []; else filter, sort, limit,
\* display, save and return; any exception gives [].
AllTickersFinish(all_tickers, limit, display, filter_by, save, canSave) ==
    IF Len(all_tickers) = 0
    THEN [result |-> Returned(PyList(<< >>)), errors |-> 1]
    ELSE IF Truthy(filter_by) /\ FilterRaises(all_tickers)
    THEN [result |-> Returned(PyList(<< >>)), errors |-> 1]
    ELSE LET kept == IF Truthy(filter_by)
                     THEN Filtered(all_tickers, filter_by)
                     ELSE all_tickers
         IN  IF \E j \in DOMAIN kept : VolumeRaises(kept[j])
             THEN [result |-> Returned(PyList(<< >>)), errors |-> 1]
             ELSE LET sorted == SortedByVolume(kept)
                      n == IF Len(sorted) < limit THEN Len(sorted) ELSE limit
                      cut == SubSeq(sorted, 1, n)
                  IN  IF \/ display /\ DisplayAllTickersRaises(cut)
                         \/ save /\ ~canSave
                      THEN [result |-> Returned(PyList(<< >>)), errors |-> 1]
                      ELSE [result |-> Returned(PyList(cut)), errors |-> 0]

TickerLimits == {1, 100}

TickerFilters == {PyNone, PyStr("eth")}

\* get_all_derivatives_tickers(limit, display, filter_by, save) is entered
\* and asks for derivatives/exchanges.
CallGetAllTickers(limit, display, filter_by, save) ==
    /\ pc = "idle"
    /\ frame = NoFrame
    /\ StartFetch("derivatives/exchanges")
    /\ frame' = [fn |-> "get_all_derivatives_tickers",
                 step |-> "exchanges_wait", limit |-> limit,
                 display |-> display, filter_by |-> filter_by, save |-> save,
                 exchanges |-> << >>, k |-> 1, all_tickers |-> << >>,
                 requested |-> << >>, failed |-> << >>, errors |-> 0,
                 result |-> NoOutcome]

\* derivatives/exchanges has returned or raised.
ExchangesDone ==
    /\ frame.fn = "get_all_derivatives_tickers"
    /\ frame.step = "exchanges_wait"
    /\ Return
    /\ IF \/ outcome.kind = "raised"
          \/ ~Truthy(outcome.value)
          \/ outcome.value.py # "list"
       THEN frame' = [frame EXCEPT !.errors = @ + 1,
                                   !.result = Returned(PyList(<< >>)),
                                   !.step = "returned"]
       ELSE frame' = [frame EXCEPT !.exchanges = outcome.value.elems,
                                   !.step = "loop"]

\* The loop passes an exchange without an id; an element that is no dict
\* raises outside the inner try and ends the function with [].
TickersSkip ==
    /\ frame.fn = "get_all_derivatives_tickers"
    /\ frame.step = "loop"
    /\ frame.k <= Len(frame.exchanges)
    /\ LET exchange == frame.exchanges[frame.k]
       IN  IF exchange.py # "dict"
           THEN frame' = [frame EXCEPT !.errors = @ + 1,
                                       !.result = Returned(PyList(<< >>)),
                                       !.step = "returned"]
           ELSE /\ ~Truthy(Get(exchange, "id", PyNone))
                /\ frame' = [frame EXCEPT !.k = @ + 1]
    /\ UNCHANGED <<clientVars, peer>>

\* The loop asks for the tickers of an exchange that has an id.
TickersCall ==
    /\ frame.fn = "get_all_derivatives_tickers"
    /\ frame.step = "loop"
    /\ frame.k <= Len(frame.exchanges)
    /\ frame.exchanges[frame.k].py = "dict"
    /\ Truthy(Get(frame.exchanges[frame.k], "id", PyNone))
    /\ Get(frame.exchanges[frame.k], "id", PyNone).py = "str"
    /\ \E e \in {TickersEndpoint(Get(frame.exchanges[frame.k], "id",
                                     PyNone).s)} :
         /\ StartFetch(e)
         /\ frame' = [frame EXCEPT !.requested = Append(@, e),
                                   !.step = "tickers_wait"]

\* Variant of the loop without the inner try: a tickers request that raises
\* ends the function with [].
TickersDoneAborts ==
    /\ frame.fn = "get_all_derivatives_tickers"
    /\ frame.step = "tickers_wait"
    /\ Return
    /\ IF outcome.kind = "raised"
       THEN frame' = [frame EXCEPT !.failed = Append(@, endpoint),
                                   !.errors = @ + 1,
                                   !.result = Returned(PyList(<< >>)),
                                   !.step = "returned"]
       ELSE frame' = [frame EXCEPT
                        !.all_tickers =
                            @ \o TickersCollected(
                                   frame.exchanges[frame.k],
                                   Get(frame.exchanges[frame.k], "id", PyNone),
                                   outcome),
                        !.k = @ + 1,
                        !.step = "loop"]

\* The tickers of the exchange have returned or raised: lines 399-411.
TickersDone ==
    /\ frame.fn = "get_all_derivatives_tickers"
    /\ frame.step = "tickers_wait"
    /\ Return
    /\ frame' = [frame EXCEPT
                   !.all_tickers =
                       @ \o TickersCollected(
                              frame.exchanges[frame.k],
                              Get(frame.exchanges[frame.k], "id", PyNone),
                              outcome),
                   !.failed = IF outcome.kind = "raised"
                              THEN Append(@, endpoint) ELSE @,
                   !.k = @ + 1,
                   !.step = "loop"]

\* After the last exchange: lines 413-445.
AllTickersReturn(canSave) ==
    /\ frame.fn = "get_all_derivatives_tickers"
    /\ frame.step = "loop"
    /\ frame.k > Len(frame.exchanges)
    /\ \E r \in {AllTickersFinish(frame.all_tickers, frame.limit,
                                  frame.display, frame.filter_by, frame.save,
                                  canSave)} :
         frame' = [frame EXCEPT !.result = r.result,
                                !.errors = @ + r.errors,
                                !.step = "returned"]
    /\ UNCHANGED <<clientVars, peer>>

(***************************************************************************)
(* get_prices_with_change (src/price.py), on the client of src/api.py,     *)
(* whose _make_request gives the same outcomes as the one above when there *)
(* is no usage file.                                                       *)
(***************************************************************************)
\* Variant of the count handed to get_coin_markets without the page limit.
MarketsCountUncapped(n) == n

\* count=len(coin_ids) if len(coin_ids) <= 250 else 250
MarketsCount(n) == IF n <= MarketsPageLimit THEN n ELSE MarketsPageLimit

\* api.get_coin_markets(vs_currency, count, page): the params of the
\* request to coins/markets.
CoinMarketsParams(vs_currency, count, page) ==
    [vs_currency |-> vs_currency, per_page |-> count, page |-> page,
     order |-> "market_cap_desc"]

\* The ids of the coins in a markets response.
ReturnedIds(out) ==
    IF out.kind = "returned" /\ out.value.py = "list"
    THEN {out.value.elems[j].items["id"].s :
            j \in {j \in DOMAIN out.value.elems :
                     /\ out.value.elems[j].py = "dict"
                     /\ "id" \in DOMAIN out.value.elems[j].items
                     /\ out.value.elems[j].items["id"].py = "str"}}
    ELSE {}

\* The entry of the result for one coin of the markets response.
DetailedEntry(coin) ==
    PyDict( "usd" :> coin.items["current_price"]
            @@ "usd_24h_change" :>
                 Get(coin, "price_change_percentage_24h", PyInt(0))
            @@ "usd_market_cap" :> Get(coin, "market_cap", PyInt(0))
            @@ "usd_volume" :> Get(coin, "total_volume", PyInt(0))
            @@ "market_cap_rank" :> Get(coin, "market_cap_rank", PyInt(0))
            @@ "symbol" :> Get(coin, "symbol", PyStr(""))
            @@ "name" :> Get(coin, "name", coin.items["id"]) )

\* format_detailed_price_table raises on a price or a 24h change that is no
\* number, on a symbol that is no string and on ranks that do not compare.
FormatDetailedTableRaises(result) ==
    \/ \E id \in DOMAIN result :
         \/ result[id].items["usd"].py # "int"
         \/ result[id].items["usd_24h_change"].py # "int"
         \/ result[id].items["symbol"].py # "str"
         \/ result[id].items["usd_market_cap"].py \notin {"int", "None"}
         \/ result[id].items["usd_volume"].py \notin {"int", "None"}
    \/ /\ Cardinality(DOMAIN result) > 1
       /\ \E id \in DOMAIN result :
            result[id].items["market_cap_rank"].py # "int"

\* Lines 180-210 of get_prices_with_change, once get_coin_markets has
\* returned or raised: the value handed back, the coins named in the
\* warning and the errors printed.
PricesWithChangeResult(coin_ids, out) ==
    LET requested_coins == {coin_ids[i] : i \in DOMAIN coin_ids}
        failed == [result |-> Returned(PyDict(EmptyMap)), warned |-> {},
                   errors |-> 1]
    IN  IF out.kind = "raised" THEN failed
        ELSE IF out.value.py \in {"None", "int"} THEN failed
        ELSE IF out.value.py \in {"dict", "str"}
        THEN IF Truthy(out.value) THEN failed
             ELSE [result |-> Returned(PyDict(EmptyMap)),
                   warned |-> requested_coins, errors |-> 0]
        ELSE
        LET markets_data == out.value.elems
        IN  IF \E j \in DOMAIN markets_data :
                 \/ markets_data[j].py # "dict"
                 \/ "id" \notin DOMAIN markets_data[j].items
                 \/ markets_data[j].items["id"].py # "str"
            THEN failed
            ELSE
            LET wanted(coin) == coin.items["id"].s \in requested_coins
                filtered_data == SelectSeq(markets_data, wanted)
                found_coins == {filtered_data[j].items["id"].s :
                                  j \in DOMAIN filtered_data}
                missing_coins == requested_coins \ found_coins
                last(id) == CHOOSE j \in DOMAIN filtered_data :
                              /\ filtered_data[j].items["id"].s = id
                              /\ \A m \in DOMAIN filtered_data :
                                   filtered_data[m].items["id"].s = id
                                   => m <= j
                result == [id \in found_coins |->
                             DetailedEntry(filtered_data[last(id)])]
            IN  IF \E j \in DOMAIN filtered_data :
                     "current_price" \notin DOMAIN filtered_data[j].items
                THEN failed
                ELSE IF FormatDetailedTableRaises(result) THEN failed
                ELSE [result |-> Returned(PyDict(result)),
                      warned |-> missing_coins, errors |-> 0]

RequestSizes == {0, 1, 2, MarketsPageLimit, MarketsPageLimit + 1}

\* get_prices_with_change(coin_ids) with n coin ids is entered and calls
\* api.get_coin_markets.
CallGetPricesWithChange(n) ==
    /\ pc = "idle"
    /\ frame = NoFrame
    /\ StartFetch("coins/markets")
    /\ frame' = [fn |-> "get_prices_with_change", step |-> "markets_wait",
                 coin_ids |-> [i \in 1..n |-> ToString(i)],
                 params |-> CoinMarketsParams("usd", MarketsCount(n), 1),
                 calls_before |-> calls, markets_out |-> NoOutcome,
                 warned |-> {}, errors |-> 0, result |-> NoOutcome]

PricesWithChangeDone ==
    /\ frame.fn = "get_prices_with_change"
    /\ frame.step = "markets_wait"
    /\ Return
    /\ \E r \in {PricesWithChangeResult(frame.coin_ids, outcome)} :
         frame' = [frame EXCEPT !.markets_out = outcome,
                                !.result = r.result,
                                !.warned = r.warned,
                                !.errors = @ + r.errors,
                                !.step = "returned"]

(***************************************************************************)
(* display_simple_volume_chart (src/app/exchange_volume.py): the line that *)
(* connects two consecutive points of the chart that differ in x and in y. *)
(***************************************************************************)
\* Lines 361-383: the diagonal branch is entered for the points (x1, y1) and
\* (x2, y2) of a grid of MaxX + 1 columns and MaxY + 1 rows; both points
\* carry their dot already.
ConnectPoints(x1, y1, x2, y2) ==
    LET abs(n) == IF n < 0 THEN 0 - n ELSE n
    IN  /\ frame = NoFrame
        /\ x1 # x2
        /\ y1 # y2
        /\ frame' = [fn |-> "display_simple_volume_chart", step |-> "line",
                     x1 |-> x1, y1 |-> y1, x2 |-> x2, y2 |-> y2,
                     dx |-> abs(x2 - x1), dy |-> abs(y2 - y1),
                     sx |-> IF x1 < x2 THEN 1 ELSE -1,
                     sy |-> IF y1 < y2 THEN 1 ELSE -1,
                     err |-> abs(x2 - x1) - abs(y2 - y1),
                     first |-> <<x1, y1>>, iterations |-> 0, drawn |-> {}]
        /\ UNCHANGED <<clientVars, peer>>

\* Variant of the loop body that moves in x and in y in every iteration.
LineStepBothWays ==
    /\ frame.fn = "display_simple_volume_chart"
    /\ frame.step = "line"
    /\ frame.x1 # frame.x2 \/ frame.y1 # frame.y2
    /\ frame' = [frame EXCEPT !.x1 = @ + frame.sx, !.y1 = @ + frame.sy,
                              !.iterations = @ + 1]
    /\ UNCHANGED <<clientVars, peer>>

\* Lines 385-396: one iteration of the while loop.
LineStep ==
    /\ frame.fn = "display_simple_volume_chart"
    /\ frame.step = "line"
    /\ frame.x1 # frame.x2 \/ frame.y1 # frame.y2
    /\ LET blank == /\ frame.y1 \in 0..MaxY
                    /\ frame.x1 \in 0..MaxX
                    /\ <<frame.x1, frame.y1>> # frame.first
                    /\ <<frame.x1, frame.y1>> # <<frame.x2, frame.y2>>
                    /\ \A c \in frame.drawn :
                         <<c[1], c[2]>> # <<frame.x1, frame.y1>>
           char == IF \/ frame.sx > 0 /\ frame.sy < 0
                      \/ frame.sx < 0 /\ frame.sy > 0
                   THEN "/" ELSE "\\"
           e2 == 2 * frame.err
           xmove == e2 > 0 - frame.dy
           ymove == e2 < frame.dx
       IN  frame' = [frame EXCEPT
                       !.drawn = IF blank
                                 THEN @ \cup {<<frame.x1, frame.y1, char>>}
                                 ELSE @,
                       !.err = @ - (IF xmove THEN frame.dy ELSE 0)
                                 + (IF ymove THEN frame.dx ELSE 0),
                       !.x1 = IF xmove THEN @ + frame.sx ELSE @,
                       !.y1 = IF ymove THEN @ + frame.sy ELSE @,
                       !.iterations = @ + 1]
    /\ UNCHANGED <<clientVars, peer>>

\* The condition of the while loop is false: the line is drawn.
LineDone ==
    /\ frame.fn = "display_simple_volume_chart"
    /\ frame.step = "line"
    /\ frame.x1 = frame.x2
    /\ frame.y1 = frame.y2
    /\ frame' = [frame EXCEPT !.step = "returned"]
    /\ UNCHANGED <<clientVars, peer>>

\* The function of the CLI hands its result to the command that called it.
CallerReturn ==
    /\ frame.fn # "none"
    /\ frame.step = "returned"
    /\ frame' = NoFrame
    /\ UNCHANGED <<clientVars, peer>>

(***************************************************************************)
(* Specifications.                                                         *)
(*                                                                         *)
(* Spec: the usage tracking under every response and every usage file,     *)
(* with a valid configuration; the calls follow each other back to back,   *)
(* sleeps are exact and responses immediate.                               *)
(***************************************************************************)
Init ==
    /\ InitAny
    /\ env_base_url = PyStr("set")
    /\ env_api_key = PyStr("set")
    /\ ~writable => usage_file \in {NoFile, WrittenFile}
    /\ ledger = NoCalls(NoFile)

Next ==
    \/ ClassBody
    \/ Construct
    \/ \E e \in Endpoints : StartFetch(e) /\ UNCHANGED frame
    \/ RespectRateLimit(0)
    \/ \E r \in {TransportError} \cup HttpResponses :
         Request(r, 0) /\ UNCHANGED ledger
    \/ Return /\ UNCHANGED frame
    \/ DayRollover
    \/ Exit

Spec == Init /\ [][Next]_vars

(***************************************************************************)
(* SpecThrottle: the throttle under every timing, with a fresh usage       *)
(* record and a transport that either fails or answers 200 or 429, with   *)
(* or without rate-limit headers.                                          *)
(***************************************************************************)
ThrottleResponses ==
    { TransportError,
      Http(200, NoRateHeaders, JsonBody),
      Http(200, FullRateHeaders, JsonBody),
      Http(429, PartRateHeaders, HtmlBody) }

InitThrottle ==
    /\ Init
    /\ usage_file = NoFile
    /\ writable

NextThrottle ==
    \/ ClassBody
    \/ Construct
    \/ \E e \in Endpoints : StartFetch(e) /\ UNCHANGED frame
    \/ \E over \in 0..MaxOversleep : RespectRateLimit(over)
    \/ \E r \in ThrottleResponses, latency \in 0..MaxLatency :
         Request(r, latency) /\ UNCHANGED ledger
    \/ Return /\ UNCHANGED frame
    \/ Tick
    \/ Exit

SpecThrottle == InitThrottle /\ [][NextThrottle]_vars

(***************************************************************************)
(* SpecConfig: every setting of the two environment variables, without a   *)
(* usage file.                                                             *)
(***************************************************************************)
InitConfig ==
    /\ InitAny
    /\ usage_file = NoFile
    /\ writable
    /\ ledger = NoCalls(NoFile)

SpecConfig == InitConfig /\ [][Next]_vars

(***************************************************************************)
(* SpecCycle: the cycle of a call under every response and usage file.     *)
(* time.sleep returns, session.get returns or raises (timeout=10), and the *)
(* caller takes the result: each of these steps is taken once it can be.   *)
(* A call is started only while the clock of the model leaves room for its *)
(* wait.                                                                   *)
(***************************************************************************)
NextCycle ==
    \/ ClassBody
    \/ Construct
    \/ \E e \in Endpoints :
         now + RateLimitWait <= MaxTime /\ StartFetch(e) /\ UNCHANGED frame
    \/ RespectRateLimit(0)
    \/ \E r \in {TransportError} \cup HttpResponses :
         Request(r, 0) /\ UNCHANGED ledger
    \/ Return /\ UNCHANGED frame
    \/ Exit

SpecCycle ==
    /\ Init
    /\ [][NextCycle]_vars
    /\ WF_vars(RespectRateLimit(0))
    /\ WF_vars(\E r \in {TransportError} \cup HttpResponses :
                 Request(r, 0) /\ UNCHANGED ledger)
    /\ WF_vars(Return /\ UNCHANGED frame)

(***************************************************************************)
(* SpecCallers: the functions of the CLI over the client, with a sound or  *)
(* a wrongly typed usage record, back-to-back timing, and a transport that *)
(* fails, answers with trending data, with prices, or with a 500.          *)
(***************************************************************************)
CallerResponses ==
    { TransportError,
      Http(200, NoRateHeaders, TrendingBody),
      Http(200, FullRateHeaders, JsonBody),
      Http(500, NoRateHeaders, HtmlBody) }

InitCallers ==
    /\ Init
    /\ writable
    /\ usage_file \in {NoFile, TextFile(JObj(("total_calls" :> JStr("many"))))}

NextCallers ==
    \/ ClassBody
    \/ Construct
    \/ \E data_type \in TrendingTypes, display \in BOOLEAN, save \in BOOLEAN :
         CallGetTrending(data_type, display, save)
    \/ TrendingCoinsCall
    \/ TrendingCoinsDone
    \/ TrendingNftsCall
    \/ TrendingNftsDone
    \/ \E canSave \in BOOLEAN : TrendingReturn(canSave)
    \/ \E display \in BOOLEAN : CallGetCurrentPrices(display)
    \/ CurrentPricesDone
    \/ \E force_refresh \in BOOLEAN : CallGetApiUsage(force_refresh)
    \/ ApiUsageRefreshDone
    \/ CallerReturn
    \/ RespectRateLimit(0)
    \/ \E r \in CallerResponses :
         Request(r, 0) /\ UNCHANGED ledger

SpecCallers == InitCallers /\ [][NextCallers]_vars


(***************************************************************************)
(* SpecQueries: the functions of the CLI that put lists together from      *)
(* several answers, on a client without a usage file.                      *)
(***************************************************************************)
InitQueries ==
    /\ Init
    /\ usage_file = NoFile
    /\ writable

NextQueries ==
    \/ ClassBody
    \/ Construct
    \/ \E days \in DaysChoices, limit \in Limits, display \in BOOLEAN,
          save \in BOOLEAN :
         CallGetNewlyListed(days, limit, display, save)
    \/ NewCoinsListDone
    \/ NewCoinsBatchCall
    \/ NewCoinsBatchDone
    \/ \E canSave \in BOOLEAN : NewCoinsReturn(canSave)
    \/ \E limit \in TickerLimits, display \in BOOLEAN,
          filter_by \in TickerFilters, save \in BOOLEAN :
         CallGetAllTickers(limit, display, filter_by, save)
    \/ ExchangesDone
    \/ TickersSkip
    \/ TickersCall
    \/ TickersDone
    \/ \E canSave \in BOOLEAN : AllTickersReturn(canSave)
    \/ \E n \in RequestSizes : CallGetPricesWithChange(n)
    \/ PricesWithChangeDone
    \/ CallerReturn
    \/ RespectRateLimit(0)
    \/ \E r \in ResponsesFor(endpoint) :
         Request(r, 0) /\ UNCHANGED ledger

SpecQueries == InitQueries /\ [][NextQueries]_vars

(***************************************************************************)
(* SpecChart: the diagonal lines of the volume chart, for every pair of    *)
(* points of the grid.                                                     *)
(***************************************************************************)
NextChart ==
    \/ \E x1 \in 0..MaxX, x2 \in 0..MaxX, y1 \in 0..MaxY, y2 \in 0..MaxY :
         ConnectPoints(x1, y1, x2, y2)
    \/ LineStep
    \/ LineDone
    \/ CallerReturn

SpecChart == InitQueries /\ [][NextChart]_vars

(***************************************************************************)
(* SpecRuns: processes that follow one another on one usage file that can  *)
(* be read and written, with the calls that got a response tallied over    *)
(* all of them.                                                            *)
(***************************************************************************)
\* The call counts a usage file holds: total_calls, and the entry `sub` of
\* the counter `key`; what the file does not hold as a number counts as 0.
FileTotal(f) ==
    IF f.kind = "text" /\ f.doc # NotJson /\ f.doc.js = "object"
       /\ "total_calls" \in DOMAIN f.doc.members
       /\ f.doc.members["total_calls"].js = "number"
    THEN f.doc.members["total_calls"].n
    ELSE 0

FileCount(f, key, sub) ==
    IF f.kind = "text" /\ f.doc # NotJson /\ f.doc.js = "object"
       /\ key \in DOMAIN f.doc.members
       /\ f.doc.members[key].js = "object"
       /\ sub \in DOMAIN f.doc.members[key].members
       /\ f.doc.members[key].members[sub].js = "number"
    THEN f.doc.members[key].members[sub].n
    ELSE 0

\* _make_request's try block, with the call entered in the tally.
CountedRequest(r) ==
    /\ Request(r, 0)
    /\ ledger' = IF r.kind = "http"
                    /\ UpdateUsageStats(usage_data, endpoint,
                                        ExtractRateLimitHeaders(r.headers),
                                        today).err = ""
                 THEN Tally(ledger, endpoint, today)
                 ELSE ledger

InitRuns ==
    /\ InitAny
    /\ env_base_url = PyStr("set")
    /\ env_api_key = PyStr("set")
    /\ writable
    /\ usage_file # UnreadableFile
    /\ ledger = NoCalls(usage_file)

NextRuns ==
    \/ ClassBody
    \/ Construct
    \/ \E e \in Endpoints : StartFetch(e) /\ UNCHANGED frame
    \/ RespectRateLimit(0)
    \/ \E r \in ThrottleResponses : CountedRequest(r)
    \/ Return /\ UNCHANGED frame
    \/ DayRollover
    \/ Exit

SpecRuns == InitRuns /\ [][NextRuns]_vars

(***************************************************************************)
(* SpecTwo: two CLI processes at the same time on one usage file.  The     *)
(* second process is followed through its constructor and its calls only:  *)
(* its throttle touches nothing the two processes share.                   *)
(***************************************************************************)
\* api = CoinGeckoAPI() in the second process.
PeerConstruct ==
    /\ peer.pc = "start"
    /\ peer' = [pc |-> "idle",
                usage_data |-> LoadUsageData(DefaultUsageData, usage_file),
                calls |-> 0, counted |-> 0]
    /\ UNCHANGED <<clientVars, frame>>

\* _make_request(e) in the second process, answered by r.
PeerFetch(e, r) ==
    /\ peer.pc = "idle"
    /\ peer.calls < MaxCalls
    /\ \E fin \in {FinishRequest(peer.usage_data, usage_file, writable, e, r,
                                  today)} :
         /\ peer' = [peer EXCEPT
                       !.usage_data = fin.d,
                       !.calls = @ + 1,
                       !.counted = @ + (IF r.kind = "http"
                                           /\ UpdateUsageStats(
                                                peer.usage_data, e,
                                                ExtractRateLimitHeaders(
                                                    r.headers),
                                                today).err = ""
                                        THEN 1 ELSE 0)]
         /\ usage_file' = fin.f
         /\ saved' = IF fin.saved THEN [valid |-> TRUE, data |-> fin.d]
                     ELSE saved
    /\ UNCHANGED <<env_base_url, env_api_key, writable, now, today, pc, runs,
                   calls, last_request_time, usage_data, endpoint, response,
                   outcome, gets, slept, pre, starts, hist, frame, ledger>>

\* The second process ends.
PeerExit ==
    /\ peer.pc = "idle"
    /\ peer' = [peer EXCEPT !.pc = "finished"]
    /\ UNCHANGED <<clientVars, frame>>

\* Either process gets no answer or a plain 200.
TwoResponses == {TransportError, Http(200, NoRateHeaders, JsonBody)}

InitTwo ==
    /\ InitAny
    /\ env_base_url = PyStr("set")
    /\ env_api_key = PyStr("set")
    /\ writable
    /\ usage_file \in {NoFile, WrittenFile}
    /\ ledger = NoCalls(usage_file)

NextTwo ==
    \/ ClassBody
    \/ Construct
    \/ \E e \in Endpoints : StartFetch(e) /\ UNCHANGED frame
    \/ RespectRateLimit(0)
    \/ \E r \in TwoResponses : CountedRequest(r)
    \/ Return /\ UNCHANGED frame
    \/ PeerConstruct
    \/ \E e \in Endpoints, r \in TwoResponses : PeerFetch(e, r)
    \/ PeerExit

SpecTwo == InitTwo /\ [][NextTwo]_vars

(***************************************************************************)
(* Properties of the throttle (SpecThrottle).                              *)
(***************************************************************************)
\* C1: on one client, the time stamps at which two consecutive calls are
\* dispatched are at least rate_limit_wait apart, whatever the endpoints;
\* hence the third of three calls starts at least twice rate_limit_wait
\* after the first.
C1_MinDelayBetweenStarts ==
    /\ \A i \in 1..(Len(starts) - 1) : starts[i + 1] - starts[i] >= RateLimitWait
    /\ Len(starts) >= 3 => starts[3] - starts[1] >= 2 * RateLimitWait

\* Three back-to-back calls to both endpoints, done in exactly two waits.
C1_Witness ==
    /\ pc = "idle"
    /\ hist.fetches = 3
    /\ hist.endpoints = Endpoints
    /\ Len(starts) = 3
    /\ starts[3] - starts[1] = 2 * RateLimitWait

\* C8: a call of _make_request issues at most one GET, and once that GET has
\* failed the call is over: the error is with the caller and no other GET
\* follows.
C8_NoRetry ==
    /\ gets <= 1
    /\ outcome.kind = "raised" => pc = "done" /\ gets = 1

\* A call whose only GET failed, in the transport or with a 429.
C8_Witness ==
    /\ pc = "done"
    /\ gets = 1
    /\ outcome = RequestError
    /\ response.kind = "http"
    /\ response.status_code = 429

\* C9: last_request_time is set to the current time before the GET is issued
\* and stays at that stamp afterwards, whether the call returns or raises.
C9_StampBeforeGet ==
    /\ pc = "get" => gets = 0 /\ last_request_time = now
    /\ Len(starts) > 0 => last_request_time = starts[Len(starts)]

\* A failed call whose response took time: the stamp is older than the clock.
C9_Witness ==
    /\ pc = "done"
    /\ outcome.kind = "raised"
    /\ now > last_request_time
    /\ last_request_time = starts[Len(starts)]

C3_BadFileNeverBlocksFetch ==
    ( /\ pc = "done"
      /\ response.kind = "http"
      /\ response.status_code >= 200
      /\ response.status_code < 300
      /\ JsonParse(response.text) # NotJson )
    => outcome.kind = "returned"

\* C4, as stated: a response whose status is not 2xx ends in the generic
\* request error, and in nothing else.
C4_NonSuccessRaisesRequestError ==
    ( /\ pc = "done"
      /\ response.kind = "http"
      /\ (response.status_code < 200 \/ response.status_code >= 300) )
    => outcome = RequestError

\* C6: from a default usage record, after K calls that all returned, all to
\* one endpoint and on one day, total_calls, calls_today, that endpoint's
\* count and that day's count are K (an entry not yet created counts as 0).
C6_FreshCounts ==
    ( /\ hist.fresh
      /\ hist.returned = hist.fetches
      /\ Cardinality(hist.endpoints) <= 1
      /\ Cardinality(hist.days) <= 1 )
    => LET K == hist.fetches
           count(key, sub) ==
               IF key \in DOMAIN usage_data
               THEN IF sub \in DOMAIN usage_data[key].items
                    THEN usage_data[key].items[sub]
                    ELSE PyInt(0)
               ELSE PyInt(0)
       IN  /\ usage_data["total_calls"] = PyInt(K)
           /\ usage_data["calls_today"] = PyInt(K)
           /\ \A e \in Endpoints :
                count("endpoints_called", e) =
                    PyInt(IF e \in hist.endpoints THEN K ELSE 0)
           /\ \A day \in Days :
                count("daily_calls", day) =
                    PyInt(IF day \in hist.days THEN K ELSE 0)

\* Three returned calls to one endpoint on one day, from a default record.
C6_Witness ==
    /\ pc = "idle"
    /\ hist.fresh
    /\ hist.fetches = 3
    /\ hist.returned = 3
    /\ Cardinality(hist.endpoints) = 1
    /\ Cardinality(hist.days) = 1

C10_SuccessReturnsBody ==
    ( /\ pc = "done"
      /\ response.kind = "http"
      /\ response.status_code >= 200
      /\ response.status_code < 300
      /\ JsonParse(response.text) # NotJson )
    => outcome = Returned(JsonLoad(JsonParse(response.text)))

(***************************************************************************)
(* Properties of the configuration (SpecConfig).                           *)
(***************************************************************************)
\* C5, as stated: with COINGECKO_BASE_URL or COINGECKO_API_KEY unset or
\* empty, no client is ever built and no GET is ever attempted.
C5_BadConfigFails ==
    ( \/ env_base_url \in {PyNone, PyStr("")}
      \/ env_api_key \in {PyNone, PyStr("")} )
    => pc \in {"start", "config_error"} /\ gets = 0

(***************************************************************************)
(* Properties of the persistence of the usage record (Spec).               *)
(***************************************************************************)
\* C11, as stated: once a call has changed the usage record and the file is
\* writable, the usage file holds the whole of the record in memory.
C11_FileEqualsRecord ==
    (pc = "done" /\ writable /\ usage_data # pre.usage_data)
    => usage_file = TextFile(JsonDump(PyDict(usage_data)))

\* C12: when the usage file cannot be written, a call that got a response
\* hands its caller what it would with a writable file (the decoded body, or
\* the request error), the record in memory carries the update, and the file
\* is as it was.
C12_WriteFailureIgnored ==
    (pc = "done" /\ ~writable /\ response.kind = "http")
    => LET fin == FinishRequest(pre.usage_data, pre.usage_file, TRUE,
                                endpoint, response, today)
       IN  /\ outcome = fin.outcome
           /\ outcome = IF RaisesForStatus(response.status_code)
                        THEN RequestError
                        ELSE ResponseJson(response.text)
           /\ usage_data = fin.d
           /\ usage_data["total_calls"] =
                  PyInt(pre.usage_data["total_calls"].n + 1)
           /\ usage_file = pre.usage_file

\* A second counted call that returned its body although nothing could be
\* written.
C12_Witness ==
    /\ pc = "done"
    /\ ~writable
    /\ outcome.kind = "returned"
    /\ usage_data["total_calls"] = PyInt(2)
    /\ usage_file = NoFile

\* C13, as stated: a client just built holds every field of a usage file
\* that is a JSON object, and holds exactly the defaults when reading,
\* parsing or merging the file failed.
C13_BadFileGivesDefaults ==
    (pc = "idle" /\ hist.fetches = 0)
    => LET f == usage_file
           parsed == f.kind = "text" /\ f.doc # NotJson
           failed == \/ f.kind = "unreadable"
                     \/ f.kind = "text" /\ f.doc = NotJson
                     \/ /\ parsed
                        /\ DictUpdate(DefaultUsageData, JsonLoad(f.doc)).err # ""
       IN  /\ (parsed /\ f.doc.js = "object")
               => \A k \in DOMAIN f.doc.members :
                      usage_data[k] = JsonLoad(f.doc.members[k])
           /\ failed => usage_data = DefaultUsageData

\* C20, as stated: a call that got an HTTP response, whatever its status,
\* leaves total_calls one higher than it found it; a call whose transport
\* raised leaves the usage record and the usage file as it found them.
C20_CountsEveryResponse ==
    /\ (pc = "done" /\ response.kind = "http")
       => /\ pre.usage_data["total_calls"].py = "int"
          /\ usage_data["total_calls"] =
                 PyInt(pre.usage_data["total_calls"].n + 1)
    /\ (pc = "done" /\ response.kind = "raised")
       => usage_data = pre.usage_data /\ usage_file = pre.usage_file

(***************************************************************************)
(* Properties of the throttle, continued (SpecThrottle).                   *)
(***************************************************************************)
\* C14: the duration a call sleeps is a function of the times alone (when
\* the call was made and when the previous one was dispatched) and of the
\* fixed interval: whatever headers the responses carried and whatever
\* rate_limit_info is stored, two runs with the same timing sleep alike.
C14_SleepFromTimesOnly ==
    pc \in {"get", "done"}
    => LET prev == IF Len(starts) >= 2 THEN starts[Len(starts) - 1] ELSE 0
           elapsed == pre.at - prev
       IN  slept = IF elapsed < RateLimitWait
                   THEN RateLimitWait - elapsed
                   ELSE 0

\* A call that sleeps the remainder although the stored rate_limit_info asks
\* for nothing of the kind.
C14_Witness ==
    /\ pc = "get"
    /\ slept = RateLimitWait - 1
    /\ hist.responded >= 1
    /\ usage_data["rate_limit_info"] = PyDict(("remaining" :> PyStr("soon")))

\* C19: the throttle measures from the dispatch of the previous request: a
\* call made when the interval has passed since then sleeps for zero time
\* and is dispatched at once, however late the previous response came;
\* otherwise it sleeps exactly the interval less the elapsed time.
C19_StartToStart ==
    [][ (pc = "throttle" /\ pc' = "get" /\ Len(starts) >= 1)
        => LET elapsed == now - starts[Len(starts)]
           IN  IF elapsed >= RateLimitWait
               THEN slept' = 0 /\ now' = now /\ last_request_time' = now
               ELSE /\ slept' = RateLimitWait - elapsed
                    /\ now' >= now + slept'
                    /\ last_request_time' = now' ]_vars

\* A call dispatched without a wait at the very time the slow response of
\* the previous call arrived.
C19_Witness ==
    /\ pc = "get"
    /\ Len(starts) >= 2
    /\ slept = 0
    /\ hist.arrived = pre.at
    /\ now = pre.at
    /\ hist.arrived - starts[Len(starts) - 1] >= RateLimitWait

(***************************************************************************)
(* Properties of the cycle of a call (SpecCycle).                          *)
(***************************************************************************)
\* C15: a call goes from idle through the wait and the GET to exactly one
\* outcome, a returned value that is the whole decoded body or a raised
\* error, and every call that was started ends with the client idle again.
C15_FetchCycle ==
    /\ [](pc \in {"throttle", "get"} => outcome = NoOutcome)
    /\ [](pc = "done"
          => \/ outcome.kind = "raised"
             \/ /\ outcome.kind = "returned"
                /\ response.kind = "http"
                /\ outcome.value = JsonLoad(JsonParse(response.text)))
    /\ (pc \in {"throttle", "get", "done"}) ~> (pc = "idle" /\ outcome = NoOutcome)

\* A client that is idle after a failed call and a call that returned.
C15_Witness ==
    /\ pc = "idle"
    /\ outcome = NoOutcome
    /\ hist.fetches = 3
    /\ hist.returned = 1
    /\ hist.responded = 2

(***************************************************************************)
(* Properties of the functions of the CLI (SpecCallers).                   *)
(***************************************************************************)
\* C16: get_trending("all") with one of its two calls raising and the other
\* returning its list: the second call is made whatever the first did, and
\* the result is a dict with "coins" and "nfts", the empty list under the
\* key of the call that raised and the returned list under the other.
C16_TrendingResilient ==
    /\ ( /\ frame.fn = "get_trending"
         /\ frame.data_type = "all"
         /\ frame.step \in {"finish", "returned"} )
       => frame.coins_out # NoOutcome /\ frame.nfts_out # NoOutcome
    /\ ( /\ frame.fn = "get_trending"
         /\ frame.data_type = "all"
         /\ ~frame.save
         /\ frame.step = "returned" )
       => LET co == frame.coins_out
              no == frame.nfts_out
              holds(out, key) ==
                  /\ out.kind = "returned"
                  /\ out.value.py = "dict"
                  /\ key \in DOMAIN out.value.items
              res == frame.result.value
          IN  /\ (co.kind = "raised" /\ holds(no, "nfts"))
                 => /\ res.py = "dict"
                    /\ {"coins", "nfts"} \subseteq DOMAIN res.items
                    /\ res.items["coins"] = PyList(<< >>)
                    /\ res.items["nfts"] = no.value.items["nfts"]
              /\ (no.kind = "raised" /\ holds(co, "coins"))
                 => /\ res.py = "dict"
                    /\ {"coins", "nfts"} \subseteq DOMAIN res.items
                    /\ res.items["nfts"] = PyList(<< >>)
                    /\ res.items["coins"] = co.value.items["coins"]

\* The coins call raised, the NFTs call was made and returned one NFT, and
\* get_trending, displaying, returned both keys.
C16_Witness ==
    /\ frame.fn = "get_trending"
    /\ frame.step = "returned"
    /\ frame.data_type = "all"
    /\ frame.display
    /\ frame.coins_out = RequestError
    /\ frame.nfts_out.kind = "returned"
    /\ Len(frame.nfts_out.value.items["nfts"].elems) = 1
    /\ frame.result.value.py = "dict"
    /\ frame.result.value.items["coins"] = PyList(<< >>)

\* C17: whenever api.get_price raises, get_current_prices prints the error
\* and returns an empty dict; nothing is raised to its caller.
C17_PriceErrorGivesEmptyDict ==
    ( /\ frame.fn = "get_current_prices"
      /\ frame.step = "returned"
      /\ frame.price_out.kind = "raised" )
    => /\ frame.result = Returned(PyDict(EmptyMap))
       /\ frame.errors = 1

\* get_price failed on a 500 and get_current_prices returned {}.
C17_Witness ==
    /\ frame.fn = "get_current_prices"
    /\ frame.step = "returned"
    /\ frame.price_out = RequestError
    /\ response.kind = "none"
    /\ hist.responded = 1
    /\ frame.result = Returned(PyDict(EmptyMap))

\* C18: get_api_usage makes no call of the client without force_refresh and
\* exactly one, get_supported_vs_currencies, with it; in both cases, and
\* also when that call raised, it returns the usage record as one
\* get_usage_stats read gives it after the refresh.
C18_ApiUsageReadsOnce ==
    ( /\ frame.fn = "get_api_usage"
      /\ frame.step = "returned" )
    => /\ frame.api_calls = IF frame.force_refresh
                            THEN <<"get_supported_vs_currencies">>
                            ELSE << >>
       /\ ~frame.force_refresh => frame.refresh_out = NoOutcome
       /\ frame.stats_reads = 1
       /\ frame.result = Returned(PyDict(usage_data))

\* A refresh that raised, after which the statistics were still returned.
C18_Witness ==
    /\ frame.fn = "get_api_usage"
    /\ frame.step = "returned"
    /\ frame.force_refresh
    /\ frame.refresh_out.kind = "raised"
    /\ frame.warnings = 1
    /\ frame.stats_reads = 1
    /\ frame.result = Returned(PyDict(usage_data))

\* C21: in a client built with the default usage record, whatever calls it
\* has made, to whatever endpoints and on whatever days, total_calls is the
\* sum of the daily_calls values, the sum of the monthly_usage values and
\* the sum of the endpoints_called values (a missing daily_calls is empty).
C21_CountersConserved ==
    hist.fresh
    => LET RECURSIVE Sum(_)
           Sum(items) ==
               IF DOMAIN items = {} THEN 0
               ELSE LET k == CHOOSE k \in DOMAIN items : TRUE
                    IN  items[k].n
                        + Sum([x \in DOMAIN items \ {k} |-> items[x]])
           daily == IF "daily_calls" \in DOMAIN usage_data
                    THEN usage_data["daily_calls"].items
                    ELSE EmptyMap
       IN  /\ usage_data["total_calls"].py = "int"
           /\ usage_data["total_calls"].n = Sum(daily)
           /\ usage_data["total_calls"].n
                  = Sum(usage_data["monthly_usage"].items)
           /\ usage_data["total_calls"].n
                  = Sum(usage_data["endpoints_called"].items)

\* Three counted calls from a default record, over both endpoints, two days
\* and two months.
C21_Witness ==
    /\ pc = "idle"
    /\ hist.fresh
    /\ hist.responded = 3
    /\ hist.endpoints = Endpoints
    /\ hist.days = Days
    /\ usage_data["total_calls"] = PyInt(3)
    /\ Cardinality(DOMAIN usage_data["monthly_usage"].items) = 2

\* C24: whenever a client at rest hands out its usage statistics,
\* calls_today is the count that daily_calls holds for the current date,
\* and 0 when daily_calls has no entry for the current date.
C24_CallsTodayIsTodaysCount ==
    LET stats == GetUsageStats
        daily == IF "daily_calls" \in DOMAIN stats
                 THEN stats["daily_calls"]
                 ELSE PyDict(EmptyMap)
    IN  (pc = "idle" /\ daily.py = "dict")
        => stats["calls_today"] = IF today \in DOMAIN daily.items
                                  THEN daily.items[today]
                                  ELSE PyInt(0)

\* C25: a call that got a response carrying at least one known rate-limit
\* header leaves rate_limit_info equal to the values parsed from that
\* response alone; a call whose response carried none of them leaves
\* rate_limit_info as it found it.
C25_RateLimitInfoReplaced ==
    (pc = "done" /\ response.kind = "http")
    => LET info == ExtractRateLimitHeaders(response.headers)
       IN  usage_data["rate_limit_info"] =
               IF Truthy(info) THEN info
               ELSE pre.usage_data["rate_limit_info"]

C22_NoCallLost ==
    (pc = "idle" /\ peer.pc = "finished")
    => FileTotal(usage_file)
         = FileTotal(ledger.file) + ledger.total + peer.counted

(***************************************************************************)
(* Properties of the functions that put lists together (SpecQueries).      *)
(***************************************************************************)
\* C26: when get_newly_listed_coins has returned and none of its requests
\* failed, it made one coins/markets request per batch of batch_size coins
\* and its result holds one entry per coin of the filtered and cut list, in
\* the order of that list, each with a current_price (None when the market
\* data does not cover the coin).
C26_OneEntryPerNewCoin ==
    ( /\ frame.fn = "get_newly_listed_coins"
      /\ frame.step = "returned"
      /\ frame.failed = 0 )
    => LET res == frame.result.value.elems
           coins == frame.new_coins
       IN  /\ frame.requests
                = 1 + ((Len(coins) + BatchSize - 1) \div BatchSize)
           /\ Len(res) = Len(coins)
           /\ \A k \in DOMAIN res :
                /\ res[k].items["id"] = coins[k].items["id"]
                /\ "current_price" \in DOMAIN res[k].items

\* C27: in get_all_derivatives_tickers the tickers requests made so far are
\* those of the exchanges passed so far that have an id, one each and in the
\* order of the list; and the end of a tickers request, failed or not,
\* keeps the tickers collected before it and moves on to the next exchange.
C27_TickersLoopGoesOn ==
    [][ /\ ( /\ frame'.fn = "get_all_derivatives_tickers"
             /\ frame'.step \in {"loop", "tickers_wait"} )
           => LET passed == IF frame'.step = "loop" THEN frame'.k - 1
                            ELSE frame'.k
                  hasId(exchange) == Truthy(Get(exchange, "id", PyNone))
                  withId == SelectSeq(SubSeq(frame'.exchanges, 1, passed),
                                      hasId)
              IN  frame'.requested =
                      [j \in DOMAIN withId |->
                         TickersEndpoint(withId[j].items["id"].s)]
        /\ ( /\ frame.fn = "get_all_derivatives_tickers"
             /\ frame.step = "tickers_wait"
             /\ frame' # frame )
           => /\ frame'.step = "loop"
              /\ frame'.k = frame.k + 1
              /\ Len(frame'.all_tickers) >= Len(frame.all_tickers)
              /\ SubSeq(frame'.all_tickers, 1, Len(frame.all_tickers))
                   = frame.all_tickers ]_vars

\* Three exchanges, the second without an id: the tickers of the first were
\* collected, the request for the third failed, and the loop is through.
C27_Witness ==
    /\ frame.fn = "get_all_derivatives_tickers"
    /\ frame.step = "loop"
    /\ Len(frame.exchanges) = 3
    /\ frame.k = 4
    /\ frame.requested = <<TickersEndpoint("bitmex"), TickersEndpoint("bybit")>>
    /\ frame.failed = <<TickersEndpoint("bybit")>>
    /\ Len(frame.all_tickers) = 2

\* C28: when get_prices_with_change has returned, the keys of its result
\* are the requested coin ids that the markets response holds, and the
\* warning names the requested coin ids that the response does not hold.
C28_ResultIsRequestedAndReturned ==
    (frame.fn = "get_prices_with_change" /\ frame.step = "returned")
    => LET requested == {frame.coin_ids[i] : i \in DOMAIN frame.coin_ids}
           returned == ReturnedIds(frame.markets_out)
       IN  /\ DOMAIN frame.result.value.items = requested \cap returned
           /\ frame.markets_out.kind = "returned"
              => frame.warned = requested \ returned

\* C29: get_prices_with_change with n coin ids makes one call of
\* get_coin_markets, hence one request, with per_page = min(n, 250), which
\* is at most 250, and page = 1.
C29_CountWithinPageLimit ==
    frame.fn = "get_prices_with_change"
    => LET n == Len(frame.coin_ids)
       IN  /\ calls = frame.calls_before + 1
           /\ frame.step = "markets_wait" => endpoint = "coins/markets"
           /\ frame.params.per_page = (IF n < 250 THEN n ELSE 250)
           /\ frame.params.per_page <= 250
           /\ frame.params.page = 1

\* 251 coin ids were asked for, the one request had per_page 250 and the
\* function has returned.
C29_Witness ==
    /\ frame.fn = "get_prices_with_change"
    /\ frame.step = "returned"
    /\ Len(frame.coin_ids) = 251
    /\ frame.params.per_page = 250
    /\ frame.markets_out.kind = "returned"

(***************************************************************************)
(* Property of the volume chart (SpecChart).                               *)
(***************************************************************************)
\* C30: the loop that draws a diagonal line has made at most dx + dy
\* iterations, its point lies between the first point and (x2, y2) in x and
\* in y, and when the loop has ended the point is (x2, y2).
C30_LineLoopEnds ==
    frame.fn = "display_simple_volume_chart"
    => LET between(a, b, c) == (a <= b /\ b <= c) \/ (c <= b /\ b <= a)
       IN  /\ frame.iterations <= frame.dx + frame.dy
           /\ between(frame.first[1], frame.x1, frame.x2)
           /\ between(frame.first[2], frame.y1, frame.y2)
           /\ frame.step = "returned"
              => frame.x1 = frame.x2 /\ frame.y1 = frame.y2

\* A flat line to the left and downwards, four columns and one row away,
\* drawn in four iterations.
C30_Witness ==
    /\ frame.fn = "display_simple_volume_chart"
    /\ frame.step = "returned"
    /\ frame.dx = 4
    /\ frame.dy = 1
    /\ frame.sx = -1
    /\ frame.iterations = 4
    /\ Cardinality(frame.drawn) = 3

====
